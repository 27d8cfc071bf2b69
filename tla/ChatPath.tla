------------------------------- MODULE ChatPath -------------------------------
(***************************************************************************)
(* A message from the browser to the bank and back: the web client (ui/web *)
(* /src: App.jsx, Login.jsx, Chat.jsx, api.js) in several tabs, the proxy  *)
(* (ui/app/main.py), the session cookie and the chat route of the API      *)
(* (api/app/routers.py, session.py, agent_client.py) and the transfers a   *)
(* turn of the agent orders (agent/app/banking/mock_http.py).  What a turn *)
(* may do is AgentTurn, what the bank does with an order is MockBank.      *)
(*                                                                         *)
(* All tabs share the cookie and the local storage; each keeps in memory   *)
(* whom it shows as signed in and the name it will silently sign in again. *)
(* The API keeps no session: whoever the cookie names is the principal.    *)
(* The proxy sends the requests of every browser with one client, which    *)
(* keeps the cookies it is sent in a jar and adds them to a request that   *)
(* comes without any.  This is one browser; what others do through the     *)
(* proxy is seen in the jar alone.                                         *)
(* Nothing is cancelled: when the proxy (60 s), the API (180 s) or the     *)
(* bank's client (10 s) stops waiting, the work goes on unheard.           *)
(* The provider is local-dev: the other one cannot open a session yet.     *)
(***************************************************************************)
EXTENDS Naturals, FiniteSets

CONSTANTS
  Tabs,
  Users,
  NoUser,        (* nobody: no cookie, null, an expired session              *)
  Idle,          (* no such request under way                                *)
  Lapsed,        (* the cookie of a request, once its session has ended      *)
  Visits,        (* what earlier visits left: [keeps, cookie, stored]        *)
  MaxMessages,   (* bound: messages sent                                     *)
  MaxOrders,     (* bound: transfers ordered by all turns                    *)
  MaxEvents      (* bound: page loads, sign-ins, sign-outs, expiries, and    *)
                 (* what other browsers do                                   *)

ASSUME ChatAssumption ==
  /\ NoUser \notin Users /\ Idle \notin Users \cup {NoUser}
  /\ Lapsed \notin Users \cup {NoUser, Idle}
  /\ Visits \subseteq [keeps : BOOLEAN, cookie : Users \cup {NoUser}, stored : Users \cup {NoUser}]
  /\ MaxMessages \in Nat /\ MaxOrders \in Nat /\ MaxEvents \in Nat

Messages == 1 .. MaxMessages
Someone  == Users \cup {NoUser}

VARIABLES
  keeps,    (* does the local storage work                                   *)
  cookie,   (* bankbuddy_session: whom it names                              *)
  jar,      (* of the proxy: whom another browser, or an exchange whose      *)
            (* answer was lost, has signed in since this one last signed in  *)
            (* or out; what this one set there lives as long as its cookie   *)
  stored,   (* bb_last_local_user in the local storage                       *)
  tab,      (* of each tab: open, me, last (_lastLocalUsername), and the     *)
            (* requests under way: boot (GET /me, with its cookie), pick     *)
            (* (the exchange of a name), out (POST /auth/logout)             *)
  call,     (* of each message: api.chat, see NoCall                         *)
  flight,   (* of each message: the cookie of a request on its way to the API *)
  turn,     (* of each message: the turns it started, see NoTurn             *)
  events,
  ordered,  (* transfers ordered by all turns                                *)
  clean     (* history: tabs whose identity nothing has crossed since loaded *)

browser == <<keeps, cookie, jar, stored, tab, events, clean>>

vars == <<browser, call, flight, turn, ordered>>

ClosedTab == [open |-> FALSE, me |-> NoUser, last |-> NoUser,
              boot |-> Idle, pick |-> Idle, out |-> FALSE]

(* tab, shown and live: the chat that waits, whom it showed when the message *)
(* was sent, and whether it is still on the page; at: where api.chat is;     *)
(* tries: requests made; name: whom the silent sign-in names.                *)
NoCall == [tab |-> Idle, shown |-> NoUser, live |-> FALSE,
           at |-> "none", tries |-> 0, name |-> NoUser]

(* started: how many; at and as: where the last one is and for whom it runs; *)
(* asked: its order under way; done and failed: orders it was told of;       *)
(* adrift: failed ones the bank may yet carry out; moved: those carried out. *)
NoTurn == [started |-> 0, at |-> "none", as |-> NoUser, asked |-> FALSE,
           done |-> 0, failed |-> 0, adrift |-> 0, moved |-> 0]

(* api.chat is over: with a reply, or with an error or no page to show it.   *)
Settled(end) == [NoCall EXCEPT !.at = end]

Waiting(m) == call[m].at \in {"calling", "reauth"}

MessagesOf(t) == {m \in Messages : call[m].tab = t}

(* History: an exchange of identity is under way in a tab.                   *)
Exchanging(t) ==
  \/ tab[t].boot # Idle \/ tab[t].pick # Idle \/ tab[t].out
  \/ \E m \in MessagesOf(t) : call[m].at = "reauth"

(* Whom a request is taken to come from, by the cookie it was sent with.     *)
Principal(sent) == IF sent = NoUser THEN jar ELSE sent

(* History: tab t begins an exchange.  It crosses every other tab, and its   *)
(* own if one is under way there.                                            *)
Crossed(t) == {u \in clean : u = t /\ ~Exchanging(t)}

-----------------------------------------------------------------------------
(* The page is loaded: the module reads the stored name, the app asks /me.   *)
(* Whatever the page was waiting for is dropped, on this side.               *)
Load(t) ==
  /\ tab' = [tab EXCEPT ![t] = [ClosedTab EXCEPT !.open = TRUE, !.last = stored, !.boot = cookie]]
  /\ call' = [m \in Messages |-> IF call[m].tab = t THEN Settled("failed") ELSE call[m]]
  /\ UNCHANGED <<flight, turn, ordered>>
  /\ clean' = IF (stored = cookie \/ NoUser \in {stored, cookie})
                 /\ \A u \in Tabs \ {t} : ~Exchanging(u)
              THEN clean \cup {t} ELSE clean \ {t}

Open(t) ==
  /\ events < MaxEvents
  /\ events' = events + 1
  /\ Load(t)
  /\ UNCHANGED <<keeps, cookie, jar, stored>>

(* setMe: the chat is on the page exactly while somebody is shown.           *)
Show(t, user) ==
  /\ tab' = [tab EXCEPT ![t].me = user, ![t].boot = Idle]
  /\ call' = [m \in Messages |->
                IF call[m].tab = t /\ user = NoUser THEN [call[m] EXCEPT !.live = FALSE] ELSE call[m]]

(* GET /me answers with the user of its cookie or of the jar, or fails.      *)
(* History: a page that shows whom the jar names has none of its own.        *)
AnswerMe(t) ==
  /\ tab[t].boot # Idle
  /\ \E user \in (Users \cap {Principal(tab[t].boot)}) \cup {NoUser} :
       /\ Show(t, user)
       /\ clean' = IF tab[t].boot = NoUser /\ user # NoUser THEN clean \ {t} ELSE clean
  /\ UNCHANGED <<keeps, cookie, jar, stored, events, flight, turn, ordered>>

(* A name is picked on the sign-in page.                                     *)
Pick(t, user) ==
  /\ events < MaxEvents
  /\ tab[t].open /\ tab[t].me = NoUser /\ tab[t].pick = Idle
  /\ tab' = [tab EXCEPT ![t].pick = user]
  /\ events' = events + 1
  /\ clean' = Crossed(t)
  /\ UNCHANGED <<keeps, cookie, jar, stored, call, flight, turn, ordered>>

(* Seeded fault: the name is stored, and the one in memory is left.          *)
AnswerPickForgets(t) ==
  /\ tab[t].pick # Idle
  /\ \/ /\ cookie' = tab[t].pick
        /\ jar' = NoUser
        /\ tab' = [tab EXCEPT ![t].me = tab[t].pick, ![t].pick = Idle]
        /\ stored' = IF keeps THEN tab[t].pick ELSE stored
     \/ /\ tab' = [tab EXCEPT ![t].pick = Idle]
        /\ jar' \in {jar, tab[t].pick}
        /\ UNCHANGED <<cookie, stored>>
  /\ UNCHANGED <<keeps, events, clean, call, flight, turn, ordered>>

(* The exchange sets the cookie, and the tab remembers the name; or it fails *)
(* and nothing changes, unless the answer was lost after the proxy had it.   *)
AnswerPick(t) ==
  /\ tab[t].pick # Idle
  /\ \/ /\ cookie' = tab[t].pick
        /\ jar' = NoUser
        /\ tab' = [tab EXCEPT ![t].me = tab[t].pick, ![t].last = tab[t].pick, ![t].pick = Idle]
        /\ stored' = IF keeps THEN tab[t].pick ELSE stored
     \/ /\ tab' = [tab EXCEPT ![t].pick = Idle]
        /\ jar' \in {jar, tab[t].pick}
        /\ UNCHANGED <<cookie, stored>>
  /\ UNCHANGED <<keeps, events, clean, call, flight, turn, ordered>>

SignOut(t) ==
  /\ events < MaxEvents
  /\ tab[t].me # NoUser /\ ~tab[t].out
  /\ tab' = [tab EXCEPT ![t].out = TRUE]
  /\ events' = events + 1
  /\ clean' = Crossed(t)
  /\ UNCHANGED <<keeps, cookie, jar, stored, call, flight, turn, ordered>>

(* The cookie is deleted, the session it held stays valid; the chat leaves   *)
(* the page and what it waited for goes on.  On an error the page stays.     *)
AnswerSignOut(t) ==
  /\ tab[t].out
  /\ \/ /\ cookie' = NoUser
        /\ jar' = NoUser
        /\ tab' = [tab EXCEPT ![t].out = FALSE, ![t].me = NoUser]
        /\ call' = [m \in Messages |->
                      IF call[m].tab = t THEN [call[m] EXCEPT !.live = FALSE] ELSE call[m]]
     \/ /\ tab' = [tab EXCEPT ![t].out = FALSE]
        /\ jar' \in {jar, NoUser}
        /\ UNCHANGED <<cookie, call>>
  /\ UNCHANGED <<keeps, stored, events, clean, flight, turn, ordered>>

(* The newest session ends, and with it all older ones: their lifetimes are  *)
(* equal, and the cookie's is that of its session.  The one in the jar may   *)
(* be newer.                                                                 *)
Expire ==
  /\ events < MaxEvents
  /\ cookie # NoUser
  /\ cookie' = NoUser
  /\ jar' \in {jar, NoUser}
  /\ events' = events + 1
  /\ tab' = [t \in Tabs |->
               IF tab[t].boot \in Users THEN [tab[t] EXCEPT !.boot = Lapsed] ELSE tab[t]]
  /\ flight' = [m \in Messages |-> IF flight[m] \in Users THEN Lapsed ELSE flight[m]]
  /\ UNCHANGED <<keeps, stored, clean, call, turn, ordered>>

(* Somebody signs in or out in another browser, through the same proxy, or   *)
(* the session in the jar ends.                                              *)
Elsewhere ==
  /\ events < MaxEvents
  /\ jar' \in Someone \ {jar}
  /\ events' = events + 1
  /\ UNCHANGED <<keeps, cookie, stored, tab, clean, call, flight, turn, ordered>>

-----------------------------------------------------------------------------
(* send(): one message at a time for each chat on the page.                  *)
Send(t) ==
  /\ tab[t].me # NoUser
  /\ \A m \in MessagesOf(t) : ~call[m].live
  /\ \E m \in Messages :
       /\ call[m].at = "none" /\ \A n \in 1 .. m - 1 : call[n].at # "none"
       /\ call' = [call EXCEPT ![m] = [tab |-> t, shown |-> tab[t].me, live |-> TRUE,
                                       at |-> "calling", tries |-> 1, name |-> NoUser]]
       /\ flight' = [flight EXCEPT ![m] = cookie]
  /\ UNCHANGED <<browser, turn, ordered>>

(* The API takes the request: a turn starts for the user of the cookie, or   *)
(* if it was sent without one, of the jar.                                   *)
Accept(m) ==
  /\ flight[m] # Idle /\ Principal(flight[m]) \in Users
  /\ flight' = [flight EXCEPT ![m] = Idle]
  /\ turn' = [turn EXCEPT ![m].started = @ + 1, ![m].at = "running", ![m].as = Principal(flight[m])]
  /\ UNCHANGED <<browser, call, ordered>>

(* 401.  The first time the client signs in again, as the name it remembers; *)
(* the second time the message fails.                                        *)
Refuse(m) ==
  /\ flight[m] # Idle /\ Principal(flight[m]) \notin Users
  /\ flight' = [flight EXCEPT ![m] = Idle]
  /\ \/ /\ call[m].at = "calling" /\ call[m].tries = 1
        /\ call' = [call EXCEPT ![m].at = "reauth", ![m].name = tab[call[m].tab].last]
        /\ clean' = Crossed(call[m].tab)
     \/ /\ call[m].at = "calling" /\ call[m].tries = 2
        /\ call' = [call EXCEPT ![m] = Settled("failed")]
        /\ UNCHANGED clean
     \/ ~Waiting(m) /\ UNCHANGED <<call, clean>>
  /\ UNCHANGED <<keeps, cookie, jar, stored, tab, events, turn, ordered>>

(* _silentReauth with a name: the exchange sets the cookie and the request   *)
(* is made again.                                                            *)
SignInAgain(m) ==
  /\ call[m].at = "reauth" /\ call[m].name # NoUser
  /\ cookie' = call[m].name
  /\ jar' = NoUser
  /\ call' = [call EXCEPT ![m].at = "calling", ![m].tries = 2]
  /\ flight' = [flight EXCEPT ![m] = call[m].name]
  /\ UNCHANGED <<keeps, stored, tab, events, clean, turn, ordered>>

(* Without a name the page goes to the provider's sign-in page, which is     *)
(* this page again.                                                          *)
Redirect(m) ==
  /\ call[m].at = "reauth" /\ call[m].name = NoUser
  /\ Load(call[m].tab)
  /\ UNCHANGED <<keeps, cookie, jar, stored, events>>

(* The answer may have been lost after the proxy had it.                     *)
ReauthFails(m) ==
  /\ call[m].at = "reauth"
  /\ call' = [call EXCEPT ![m] = Settled("failed")]
  /\ jar' \in {jar} \cup (Users \cap {call[m].name})
  /\ UNCHANGED <<keeps, cookie, stored, tab, events, clean, flight, turn, ordered>>

(* Seeded fault: a request that fails is made again.                         *)
GiveUpAgain(m) ==
  /\ call[m].at = "calling"
  /\ call' = [call EXCEPT ![m].tries = @ + 1]
  /\ flight' = [flight EXCEPT ![m] = cookie]
  /\ UNCHANGED <<browser, turn, ordered>>

(* The proxy or the API has waited long enough, or a connection breaks: the  *)
(* message fails, and neither the request nor the turn is taken back.        *)
GiveUp(m) ==
  /\ call[m].at = "calling"
  /\ call' = [call EXCEPT ![m] = Settled("failed")]
  /\ UNCHANGED <<browser, flight, turn, ordered>>

(* Seeded fault: the client does not hear of a turn that failed.             *)
ReceiveReply(m) ==
  /\ call[m].at = "calling" /\ turn[m].at = "replied"
  /\ call' = [call EXCEPT ![m] = Settled("answered")]
  /\ UNCHANGED <<browser, flight, turn, ordered>>

(* The answer of the agent reaches the chat: a reply, or a 502.              *)
Receive(m) ==
  /\ call[m].at = "calling"
  /\ \/ turn[m].at = "replied" /\ call' = [call EXCEPT ![m] = Settled("answered")]
     \/ turn[m].at = "failed" /\ call' = [call EXCEPT ![m] = Settled("failed")]
  /\ UNCHANGED <<browser, flight, turn, ordered>>

-----------------------------------------------------------------------------
(* The turn orders a transfer from the bank, one at a time.                  *)
Order(m) ==
  /\ turn[m].at = "running" /\ ~turn[m].asked
  /\ ordered < MaxOrders
  /\ ordered' = ordered + 1
  /\ turn' = [turn EXCEPT ![m].asked = TRUE]
  /\ UNCHANGED <<browser, call, flight>>

(* The bank carries the order out, or refuses it, and says so.               *)
AnswerOrder(m) ==
  /\ turn[m].asked
  /\ \/ turn' = [turn EXCEPT ![m].asked = FALSE, ![m].done = @ + 1, ![m].moved = @ + 1]
     \/ turn' = [turn EXCEPT ![m].asked = FALSE, ![m].failed = @ + 1]
  /\ UNCHANGED <<browser, call, flight, ordered>>

(* Seeded fault: an order that timed out is sent once more.                  *)
LoseOrderAndRepeat(m) ==
  /\ turn[m].asked
  /\ turn' = [turn EXCEPT ![m].adrift = 1]
  /\ UNCHANGED <<browser, call, flight, ordered>>

(* Ten seconds have passed: the tool result is an error, and the order is    *)
(* with the bank.                                                            *)
LoseOrder(m) ==
  /\ turn[m].asked
  /\ turn' = [turn EXCEPT ![m].asked = FALSE, ![m].failed = @ + 1, ![m].adrift = @ + 1]
  /\ UNCHANGED <<browser, call, flight, ordered>>

(* The bank comes to an order that nobody waits for.                         *)
CarryOutLate(m) ==
  /\ turn[m].adrift > 0
  /\ \E n \in {0, 1} : turn' = [turn EXCEPT ![m].adrift = @ - 1, ![m].moved = @ + n]
  /\ UNCHANGED <<browser, call, flight, ordered>>

EndTurn(m) ==
  /\ turn[m].at = "running" /\ ~turn[m].asked
  /\ \E end \in {"replied", "failed"} :
       turn' = [turn EXCEPT ![m].at = end, ![m].as = NoUser]
  /\ UNCHANGED <<browser, call, flight, ordered>>

-----------------------------------------------------------------------------
Init ==
  /\ \E visit \in Visits :
       /\ keeps = visit.keeps
       /\ cookie = visit.cookie
       /\ stored = visit.stored
  /\ jar = NoUser
  /\ tab = [t \in Tabs |-> ClosedTab]
  /\ call = [m \in Messages |-> NoCall]
  /\ flight = [m \in Messages |-> Idle]
  /\ turn = [m \in Messages |-> NoTurn]
  /\ events = 0
  /\ ordered = 0
  /\ clean = {}

Browser(t) ==
  \/ Open(t) \/ AnswerMe(t)
  \/ \E user \in Users : Pick(t, user)
  \/ AnswerPick(t) \/ SignOut(t) \/ AnswerSignOut(t)
  \/ Send(t)

(* What the servers, and the client once it has sent a message, will do.     *)
Progress(m) ==
  \/ Accept(m) \/ Refuse(m)
  \/ SignInAgain(m) \/ Redirect(m) \/ ReauthFails(m)
  \/ AnswerOrder(m) \/ EndTurn(m) \/ Receive(m)

Faults(m) == GiveUp(m) \/ LoseOrder(m) \/ CarryOutLate(m)

Next ==
  \/ Expire \/ Elsewhere
  \/ \E t \in Tabs : Browser(t)
  \/ \E m \in Messages : Progress(m) \/ Order(m) \/ Faults(m)

(* Every request is answered: a turn ends (AgentTurn), the bank answers      *)
(* (MockBank), and the client continues when an answer is there.  Nothing is *)
(* assumed of people, of expiries or of timeouts.                            *)
Spec == Init /\ [][Next]_vars /\ \A m \in Messages : WF_vars(Progress(m))

-----------------------------------------------------------------------------
Tab  == [open : BOOLEAN, me : Someone, last : Someone,
         boot : Someone \cup {Idle, Lapsed}, pick : Users \cup {Idle}, out : BOOLEAN]
Call == [tab : Tabs \cup {Idle}, shown : Someone, live : BOOLEAN,
         at : {"none", "calling", "reauth", "answered", "failed"}, tries : 0 .. 2, name : Someone]
Turn == [started : Nat, at : {"none", "running", "replied", "failed"}, as : Someone,
         asked : BOOLEAN, done : Nat, failed : Nat, adrift : Nat, moved : Nat]

(* The type of every variable.                                               *)
TypeOK ==
  /\ keeps \in BOOLEAN
  /\ cookie \in Someone
  /\ jar \in Someone
  /\ stored \in Someone
  /\ tab \in [Tabs -> Tab]
  /\ call \in [Messages -> Call]
  /\ flight \in [Messages -> Someone \cup {Idle, Lapsed}]
  /\ turn \in [Messages -> Turn]
  /\ events \in Nat
  /\ ordered \in Nat
  /\ clean \subseteq Tabs

(* A message is acted on once, although the client makes its request again:  *)
(* after a sign-in, a timeout, a sign-out or a reload, and whatever request  *)
(* is still on its way.                                                      *)
OneTurnPerMessage == \A m \in Messages : turn[m].started <= 1

(* A reply on the page accounts for the money: its turn is over, what it was *)
(* told is done has moved, and nothing has moved or may still move beyond    *)
(* that but orders it was told had failed.                                   *)
ReplyCoversTheMoney ==
  \A m \in Messages :
    call[m].at = "answered" =>
      /\ turn[m].at = "replied" /\ ~turn[m].asked
      /\ turn[m].done <= turn[m].moved
      /\ turn[m].moved + turn[m].adrift <= turn[m].done + turn[m].failed

(* A chat whose request carries the cookie of its own browser acts for the   *)
(* user its page shows, across sign-outs, expiries and silent sign-ins, as   *)
(* long as the sign-ins of the browser do not cross: no other tab signs in   *)
(* or out, in this one they come one after another, and the page was not     *)
(* filled from the jar of the proxy.                                         *)
ShownUserActs ==
  [][\A m \in Messages :
       turn'[m].started # turn[m].started /\ flight[m] # NoUser
           /\ call[m].live /\ call[m].tab \in clean
         => turn'[m].as = call[m].shown]_vars

(* What the API says of a request without a session cookie (401, "no         *)
(* session"), asked of the whole path: no turn starts for a message that the *)
(* browser sent without one.                                                 *)
NoSessionIsRefused ==
  [][\A m \in Messages : turn'[m].started # turn[m].started => flight[m] # NoUser]_vars

(* No chat stays busy: every message is answered, fails or leaves the page.  *)
EverySendSettles == \A m \in Messages : Waiting(m) ~> ~Waiting(m)
=============================================================================
