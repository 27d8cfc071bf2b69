---------------------------- MODULE ChatPathProofs ----------------------------
(***************************************************************************)
(* Proofs about a chat, for any number of tabs, users and messages: a      *)
(* message starts at most one turn, a reply accounts for the money, and a  *)
(* chat with a session of its own browser acts for whom its page shows     *)
(* while no sign-ins cross.                                                *)
(***************************************************************************)
EXTENDS ChatPath, TLAPS

(* A request still on its way, or one about to be made again, has not        *)
(* started a turn: that is why starting one when it arrives starts no second.*)
RequestsAreFirst ==
  \A m \in Messages :
    /\ call[m].at \in {"none", "reauth"} => flight[m] = Idle /\ turn[m].started = 0
    /\ flight[m] # Idle => turn[m].started = 0
    /\ turn[m].started <= 1
    /\ turn[m].started = 0 => turn[m].at = "none"

(* The transfers of a turn, whether or not anybody still waits for it.       *)
OrdersAreCounted ==
  \A m \in Messages :
    /\ turn[m].asked => turn[m].at = "running"
    /\ turn[m].done <= turn[m].moved
    /\ turn[m].moved + turn[m].adrift <= turn[m].done + turn[m].failed

CallsAreInTabs == \A m \in Messages : Waiting(m) => call[m].tab \in Tabs

AnsweredIsReplied ==
  \A m \in Messages : call[m].at = "answered" => turn[m].at = "replied"

IInv ==
  /\ TypeOK
  /\ RequestsAreFirst
  /\ OrdersAreCounted
  /\ CallsAreInTabs
  /\ AnsweredIsReplied

-----------------------------------------------------------------------------
LEMMA SettledType ==
  ASSUME NEW end \in {"answered", "failed"}
  PROVE  Settled(end) \in Call /\ Settled(end).at = end
<1>1. NoCall \in Call
  BY DEF NoCall, Call, Someone
<1>2. ASSUME NEW c \in Call PROVE [c EXCEPT !.at = end] \in Call
  BY Zenon DEF Call
<1>3. ASSUME NEW c \in Call PROVE [c EXCEPT !.at = end].at = end
  BY DEF Call
<1>4. QED
  BY <1>1, <1>2, <1>3 DEF Settled

LEMMA InitHolds == ASSUME Init PROVE IInv
<1>1. NoTurn \in Turn /\ NoCall \in Call /\ ClosedTab \in Tab
  BY DEF NoTurn, Turn, NoCall, Call, ClosedTab, Tab, Someone
<1>2. TypeOK
  BY <1>1, ChatAssumption DEF Init, TypeOK, Someone
<1>3. RequestsAreFirst /\ OrdersAreCounted /\ CallsAreInTabs /\ AnsweredIsReplied
  BY DEF Init, NoTurn, NoCall, RequestsAreFirst, OrdersAreCounted, CallsAreInTabs,
         AnsweredIsReplied, Waiting
<1>4. QED
  BY <1>2, <1>3 DEF IInv

(* Where only the page changes: what every message's call is doing stays, or *)
(* the call ends.                                                            *)
LEMMA PageStepKeeps ==
  ASSUME IInv, TypeOK', UNCHANGED <<flight, turn>>,
         \A m \in Messages : \/ call'[m].at = call[m].at /\ call'[m].tab = call[m].tab
                             \/ call'[m].at = "failed"
  PROVE  IInv'
BY DEF IInv, RequestsAreFirst, OrdersAreCounted, CallsAreInTabs, AnsweredIsReplied, Waiting

LEMMA LoadKeeps ==
  ASSUME IInv, NEW t \in Tabs, Load(t), UNCHANGED <<keeps, cookie, jar, stored>>, events' \in Nat
  PROVE  IInv'
<1>1. [ClosedTab EXCEPT !.open = TRUE, !.last = stored, !.boot = cookie] \in Tab
  BY DEF IInv, TypeOK, ClosedTab, Tab, Someone
<1>2. tab' \in [Tabs -> Tab]
  BY <1>1 DEF IInv, TypeOK, Load
<1>3. Settled("failed") \in Call /\ Settled("failed").at = "failed"
  BY SettledType
<1>4. call' \in [Messages -> Call]
  BY <1>3 DEF IInv, TypeOK, Load
<1>5. TypeOK'
  BY <1>2, <1>4 DEF IInv, TypeOK, Load
<1>6. QED
  BY <1>3, <1>5, PageStepKeeps DEF Load, IInv, TypeOK

(* Taking a chat off the page leaves its calls under way.                    *)
LEMMA Unmounted ==
  ASSUME TypeOK, NEW m \in Messages
  PROVE  LET c == [call[m] EXCEPT !.live = FALSE]
         IN  c \in Call /\ c.at = call[m].at /\ c.tab = call[m].tab
BY DEF TypeOK, Call

(* The page shows a user or nobody.                                          *)
LEMMA SomeoneIsShown ==
  ASSUME NEW t \in Tabs, AnswerMe(t)
  PROVE  \E user \in Someone : Show(t, user)
BY DEF AnswerMe, Someone

(* The page itself: sign-ins, sign-outs and what it shows.                   *)
LEMMA PageKeeps ==
  ASSUME IInv, NEW t \in Tabs,
         AnswerMe(t) \/ (\E user \in Users : Pick(t, user)) \/ AnswerPick(t)
           \/ SignOut(t) \/ AnswerSignOut(t)
  PROVE  IInv'
<1>1. tab' \in [Tabs -> Tab]
  <2>1. tab[t] \in Tab /\ tab \in [Tabs -> Tab]
    BY DEF IInv, TypeOK
  <2>2. CASE AnswerMe(t)
    <3>1. PICK user \in Someone : Show(t, user)
      BY <2>2, SomeoneIsShown
    <3>2. [tab[t] EXCEPT !.me = user, !.boot = Idle] \in Tab
      BY <2>1, Zenon DEF Tab
    <3>3. QED
      BY <2>1, <3>1, <3>2 DEF Show
  <2>3. CASE \E user \in Users : Pick(t, user)
    BY <2>1, <2>3 DEF Pick, Tab
  <2>4. CASE AnswerPick(t)
    BY <2>1, <2>4 DEF AnswerPick, Tab, Someone
  <2>5. CASE SignOut(t)
    BY <2>1, <2>5 DEF SignOut, Tab
  <2>6. CASE AnswerSignOut(t)
    <3>1. [tab[t] EXCEPT !.out = FALSE, !.me = NoUser] \in Tab
      BY <2>1, Zenon DEF Tab, Someone
    <3>2. [tab[t] EXCEPT !.out = FALSE] \in Tab
      BY <2>1, Zenon DEF Tab
    <3>3. QED
      BY <2>1, <2>6, <3>1, <3>2 DEF AnswerSignOut
  <2>7. QED
    BY <2>2, <2>3, <2>4, <2>5, <2>6
<1>2. UNCHANGED <<keeps, flight, turn, ordered>>
  BY DEF AnswerMe, Show, Pick, AnswerPick, SignOut, AnswerSignOut
<1>3. cookie' \in Someone /\ jar' \in Someone /\ stored' \in Someone
  <2>1. tab[t].pick # Idle => tab[t].pick \in Someone
    BY DEF IInv, TypeOK, Tab, Someone
  <2>2. QED
    BY <2>1 DEF IInv, TypeOK, AnswerMe, Pick, AnswerPick, SignOut, AnswerSignOut, Someone
<1>4. events' \in Nat /\ clean' \subseteq Tabs
  BY DEF IInv, TypeOK, AnswerMe, Pick, AnswerPick, SignOut, AnswerSignOut, Crossed
<1>5. \A m \in Messages : \/ call'[m] = call[m]
                          \/ call'[m] = [call[m] EXCEPT !.live = FALSE]
  BY DEF IInv, TypeOK, AnswerMe, Show, Pick, AnswerPick, SignOut, AnswerSignOut
<1>6. call' \in [Messages -> Call]
  <2>1. \A m \in Messages : [call[m] EXCEPT !.live = FALSE] \in Call
    BY Unmounted DEF IInv
  <2>2. call \in [Messages -> Call] /\ DOMAIN call' = Messages /\ call' = [m \in Messages |-> call'[m]]
    BY DEF IInv, TypeOK, AnswerMe, Show, Pick, AnswerPick, SignOut, AnswerSignOut
  <2>3. \A m \in Messages : call'[m] \in Call
    BY <2>1, <2>2, <1>5
  <2>4. QED
    BY <2>2, <2>3
<1>7. TypeOK'
  BY <1>1, <1>2, <1>3, <1>4, <1>6 DEF IInv, TypeOK
<1>8. \A m \in Messages : call'[m].at = call[m].at /\ call'[m].tab = call[m].tab
  BY <1>5, Unmounted DEF IInv
<1>9. QED
  BY <1>2, <1>7, <1>8, PageStepKeeps

LEMMA ExpireKeeps ==
  ASSUME IInv, Expire
  PROVE  IInv'
<1>1. \A t \in Tabs : [tab[t] EXCEPT !.boot = Lapsed] \in Tab
  BY DEF IInv, TypeOK, Tab
<1>2. TypeOK'
  BY <1>1 DEF IInv, TypeOK, Expire, Someone
<1>3. \A m \in Messages : flight'[m] = Idle <=> flight[m] = Idle
  BY ChatAssumption DEF IInv, TypeOK, Expire, Someone
<1>4. UNCHANGED <<call, turn>>
  BY DEF Expire
<1>5. QED
  BY <1>2, <1>3, <1>4 DEF IInv, RequestsAreFirst, OrdersAreCounted, CallsAreInTabs,
                          AnsweredIsReplied, Waiting

(* What other browsers do is seen in the jar alone.                          *)
LEMMA ElsewhereKeeps ==
  ASSUME IInv, Elsewhere
  PROVE  IInv'
<1>1. TypeOK'
  BY DEF IInv, TypeOK, Elsewhere
<1>2. QED
  BY <1>1, PageStepKeeps DEF Elsewhere

-----------------------------------------------------------------------------
(* A new message: its call was never used, and so neither was its turn.      *)
LEMMA SendKeeps ==
  ASSUME IInv, NEW t \in Tabs, Send(t)
  PROVE  IInv'
<1>1. PICK m \in Messages :
        /\ call[m].at = "none"
        /\ call' = [call EXCEPT ![m] = [tab |-> t, shown |-> tab[t].me, live |-> TRUE,
                                        at |-> "calling", tries |-> 1, name |-> NoUser]]
        /\ flight' = [flight EXCEPT ![m] = cookie]
  BY DEF Send
<1>2. [tab |-> t, shown |-> tab[t].me, live |-> TRUE,
       at |-> "calling", tries |-> 1, name |-> NoUser] \in Call
  BY DEF IInv, TypeOK, Tab, Call, Someone
<1>3. TypeOK'
  BY <1>1, <1>2 DEF IInv, TypeOK, Send, browser
<1>4. QED
  BY <1>1, <1>3 DEF IInv, TypeOK, RequestsAreFirst, OrdersAreCounted, CallsAreInTabs,
                    AnsweredIsReplied, Waiting, Send

(* The request is at the API: taken, or refused.                             *)
LEMMA AcceptKeeps ==
  ASSUME IInv, NEW m \in Messages, Accept(m)
  PROVE  IInv'
<1>1. turn[m] \in Turn /\ turn[m].started = 0 /\ flight[m] # Idle /\ call[m].at \notin {"none", "reauth"}
  BY ChatAssumption DEF IInv, TypeOK, RequestsAreFirst, Accept
<1>2. turn[m].at = "none"
  BY <1>1 DEF IInv, RequestsAreFirst
<1>3. [turn[m] EXCEPT !.started = @ + 1, !.at = "running", !.as = Principal(flight[m])] \in Turn
  <2>1. Principal(flight[m]) \in Someone /\ turn[m].started + 1 \in Nat
    BY <1>1 DEF Accept, Someone
  <2>2. QED
    BY <1>1, <2>1, Zenon DEF Turn
<1>4. TypeOK'
  BY <1>3 DEF IInv, TypeOK, Accept, browser
<1>5. turn'[m].started = 1 /\ turn'[m].at = "running" /\ turn'[m].asked = turn[m].asked
        /\ turn'[m].done = turn[m].done /\ turn'[m].failed = turn[m].failed
        /\ turn'[m].adrift = turn[m].adrift /\ turn'[m].moved = turn[m].moved
  BY <1>1 DEF IInv, TypeOK, Accept, Turn
<1>6. \A n \in Messages \ {m} : turn'[n] = turn[n] /\ flight'[n] = flight[n]
  BY DEF IInv, TypeOK, Accept
<1>7. flight'[m] = Idle /\ call' = call
  BY DEF IInv, TypeOK, Accept
<1>8. RequestsAreFirst' /\ AnsweredIsReplied'
  BY <1>1, <1>2, <1>5, <1>6, <1>7 DEF IInv, RequestsAreFirst, AnsweredIsReplied
<1>9. OrdersAreCounted' /\ CallsAreInTabs'
  BY <1>1, <1>2, <1>5, <1>6, <1>7 DEF IInv, OrdersAreCounted, CallsAreInTabs, Waiting
<1>10. QED
  BY <1>4, <1>8, <1>9 DEF IInv

LEMMA RefuseKeeps ==
  ASSUME IInv, NEW m \in Messages, Refuse(m)
  PROVE  IInv'
<1>1. Settled("failed") \in Call /\ Settled("failed").at = "failed"
  BY SettledType
<1>2. CASE call[m].at = "calling" /\ call[m].tries = 1
           /\ call' = [call EXCEPT ![m].at = "reauth", ![m].name = tab[call[m].tab].last]
  <2>1. tab[call[m].tab].last \in Someone /\ call[m] \in Call /\ call[m].tab \in Tabs
    BY <1>2 DEF IInv, TypeOK, CallsAreInTabs, Waiting, Tab
  <2>2. [call[m] EXCEPT !.at = "reauth", !.name = tab[call[m].tab].last] \in Call
    BY <2>1 DEF Call
  <2>3. call' \in [Messages -> Call] /\ call'[m].at = "reauth" /\ call'[m].tab = call[m].tab
    BY <1>2, <2>1, <2>2 DEF IInv, TypeOK, Call
  <2>4. QED
    BY <1>2, <2>1, <2>3, ChatAssumption
    DEF IInv, TypeOK, RequestsAreFirst, OrdersAreCounted, CallsAreInTabs, AnsweredIsReplied,
        Waiting, Refuse, Crossed, Someone
<1>3. CASE call[m].at = "calling" /\ call' = [call EXCEPT ![m] = Settled("failed")]
  BY <1>1, <1>3 DEF IInv, TypeOK, RequestsAreFirst, OrdersAreCounted, CallsAreInTabs,
                    AnsweredIsReplied, Waiting, Refuse, Crossed
<1>4. CASE UNCHANGED call
  BY <1>4 DEF IInv, TypeOK, RequestsAreFirst, OrdersAreCounted, CallsAreInTabs,
              AnsweredIsReplied, Waiting, Refuse, Crossed
<1>5. QED
  BY <1>2, <1>3, <1>4 DEF Refuse

(* The silent sign-in, and the request made again: the first one was refused.*)
LEMMA SignInAgainKeeps ==
  ASSUME IInv, NEW m \in Messages, SignInAgain(m)
  PROVE  IInv'
<1>1. call[m] \in Call /\ call[m].name \in Someone /\ turn[m].started = 0
  BY DEF IInv, TypeOK, RequestsAreFirst, SignInAgain, Call
<1>2. [call[m] EXCEPT !.at = "calling", !.tries = 2] \in Call
  <2>1. \A n \in 0 .. 2 : [call[m] EXCEPT !.at = "calling", !.tries = n] \in Call
    BY <1>1, Zenon DEF Call
  <2>2. QED
    BY <2>1
<1>3. TypeOK'
  <2>1. jar' \in Someone
    BY DEF SignInAgain, Someone
  <2>2. QED
    BY <2>1, <1>1, <1>2 DEF IInv, TypeOK, SignInAgain
<1>4. call'[m].at = "calling" /\ call'[m].tab = call[m].tab
  BY <1>1 DEF IInv, TypeOK, SignInAgain, Call
<1>5. QED
  BY <1>1, <1>3, <1>4 DEF IInv, TypeOK, RequestsAreFirst, OrdersAreCounted, CallsAreInTabs,
                          AnsweredIsReplied, Waiting, SignInAgain

LEMMA RedirectKeeps ==
  ASSUME IInv, NEW m \in Messages, Redirect(m)
  PROVE  IInv'
<1>1. call[m].tab \in Tabs /\ events' \in Nat
  BY DEF IInv, TypeOK, CallsAreInTabs, Waiting, Redirect
<1>2. QED
  BY <1>1, LoadKeeps DEF Redirect

(* The steps that end api.chat.                                              *)
LEMMA EndKeeps ==
  ASSUME IInv, NEW m \in Messages, ReauthFails(m) \/ GiveUp(m) \/ Receive(m)
  PROVE  IInv'
<1>1. PICK end \in {"answered", "failed"} :
        /\ call' = [call EXCEPT ![m] = Settled(end)]
        /\ end = "answered" => turn[m].at = "replied"
  BY DEF ReauthFails, GiveUp, Receive
<1>2. Settled(end) \in Call /\ Settled(end).at = end
  BY SettledType
<1>3. /\ UNCHANGED <<keeps, cookie, stored, tab, events, clean, flight, turn, ordered>>
      /\ jar' \in Someone
  BY DEF ReauthFails, GiveUp, Receive, browser, IInv, TypeOK, Someone
<1>4. TypeOK'
  <2>1. call' \in [Messages -> Call]
    BY <1>1, <1>2 DEF IInv, TypeOK
  <2>2. QED
    BY <2>1, <1>3 DEF IInv, TypeOK
<1>5. QED
  BY <1>1, <1>2, <1>3, <1>4 DEF IInv, TypeOK, RequestsAreFirst, OrdersAreCounted,
                                CallsAreInTabs, AnsweredIsReplied, Waiting

-----------------------------------------------------------------------------
(* The turn and the bank: a step that changes the orders of one turn under   *)
(* way, and keeps their books, keeps everything.                             *)
LEMMA BooksKeep ==
  ASSUME IInv, NEW m \in Messages, NEW r \in Turn, turn' = [turn EXCEPT ![m] = r],
         UNCHANGED <<browser, call, flight>>, ordered' \in Nat,
         r.started = turn[m].started, turn[m].at # "none" \/ r.at = "none",
         turn[m].at = "replied" => r.at = "replied",
         r.asked => r.at = "running", r.done <= r.moved, r.moved + r.adrift <= r.done + r.failed
  PROVE  IInv'
<1>1. TypeOK'
  BY DEF IInv, TypeOK, browser
<1>2. turn'[m] = r /\ \A n \in Messages \ {m} : turn'[n] = turn[n]
  BY DEF IInv, TypeOK
<1>3. RequestsAreFirst' /\ AnsweredIsReplied' /\ CallsAreInTabs'
  BY <1>2 DEF IInv, RequestsAreFirst, AnsweredIsReplied, CallsAreInTabs, Waiting
<1>4. OrdersAreCounted'
  BY <1>2 DEF IInv, OrdersAreCounted
<1>5. QED
  BY <1>1, <1>3, <1>4 DEF IInv

LEMMA OrderKeeps ==
  ASSUME IInv, NEW m \in Messages, Order(m)
  PROVE  IInv'
<1>1. DEFINE r == [turn[m] EXCEPT !.asked = TRUE]
<1>2. turn[m] \in Turn /\ ordered' \in Nat
  BY DEF IInv, TypeOK, Order
<1>3. r \in Turn /\ r.started = turn[m].started /\ r.at = "running" /\ r.done = turn[m].done
        /\ r.failed = turn[m].failed /\ r.adrift = turn[m].adrift /\ r.moved = turn[m].moved
  BY <1>2 DEF Order, Turn
<1>4. QED
  BY <1>2, <1>3, BooksKeep DEF IInv, OrdersAreCounted, Order

LEMMA AnswerOrderKeeps ==
  ASSUME IInv, NEW m \in Messages, AnswerOrder(m)
  PROVE  IInv'
<1>1. DEFINE carried == [turn[m] EXCEPT !.asked = FALSE, !.done = @ + 1, !.moved = @ + 1]
             refused == [turn[m] EXCEPT !.asked = FALSE, !.failed = @ + 1]
<1>2. turn[m] \in Turn /\ ordered' \in Nat /\ turn[m].at = "running"
  BY DEF IInv, TypeOK, OrdersAreCounted, AnswerOrder
<1>3. turn[m].done + 1 \in Nat /\ turn[m].moved + 1 \in Nat /\ turn[m].failed + 1 \in Nat
  BY <1>2 DEF Turn
<1>4. carried \in Turn /\ refused \in Turn
  BY <1>2, <1>3, Zenon DEF Turn
<1>5. carried.started = turn[m].started /\ carried.at = turn[m].at
        /\ ~carried.asked /\ carried.done = turn[m].done + 1 /\ carried.failed = turn[m].failed
        /\ carried.adrift = turn[m].adrift /\ carried.moved = turn[m].moved + 1
  BY <1>2 DEF Turn
<1>6. refused.started = turn[m].started /\ refused.at = turn[m].at
        /\ ~refused.asked /\ refused.done = turn[m].done /\ refused.failed = turn[m].failed + 1
        /\ refused.adrift = turn[m].adrift /\ refused.moved = turn[m].moved
  BY <1>2 DEF Turn
<1>7. /\ turn[m].done <= turn[m].moved
      /\ turn[m].moved + turn[m].adrift <= turn[m].done + turn[m].failed
      /\ turn[m].done \in Nat /\ turn[m].moved \in Nat /\ turn[m].adrift \in Nat /\ turn[m].failed \in Nat
  BY <1>2 DEF IInv, OrdersAreCounted, Turn
<1>8. carried.done <= carried.moved
        /\ carried.moved + carried.adrift <= carried.done + carried.failed
  BY <1>5, <1>7
<1>9. refused.done <= refused.moved
        /\ refused.moved + refused.adrift <= refused.done + refused.failed
  BY <1>6, <1>7
<1>10. turn' = [turn EXCEPT ![m] = carried] \/ turn' = [turn EXCEPT ![m] = refused]
  BY DEF AnswerOrder
<1>11. UNCHANGED <<browser, call, flight>>
  BY DEF AnswerOrder
<1> HIDE DEF carried, refused
<1>12. QED
  BY <1>2, <1>4, <1>5, <1>6, <1>8, <1>9, <1>10, <1>11, BooksKeep

LEMMA LoseOrderKeeps ==
  ASSUME IInv, NEW m \in Messages, LoseOrder(m)
  PROVE  IInv'
<1>1. DEFINE r == [turn[m] EXCEPT !.asked = FALSE, !.failed = @ + 1, !.adrift = @ + 1]
<1>2. turn[m] \in Turn /\ ordered' \in Nat /\ turn[m].at = "running"
  BY DEF IInv, TypeOK, OrdersAreCounted, LoseOrder
<1>3. r \in Turn
  <2>1. turn[m].failed + 1 \in Nat /\ turn[m].adrift + 1 \in Nat
    BY <1>2 DEF Turn
  <2>2. QED
    BY <1>2, <2>1, Zenon DEF Turn
<1>4. r.started = turn[m].started /\ r.at = turn[m].at /\ ~r.asked
        /\ r.done = turn[m].done /\ r.failed = turn[m].failed + 1
        /\ r.adrift = turn[m].adrift + 1 /\ r.moved = turn[m].moved
  BY <1>2 DEF Turn
<1>5. r.done <= r.moved /\ r.moved + r.adrift <= r.done + r.failed
  BY <1>2, <1>4 DEF IInv, OrdersAreCounted, Turn
<1>6. turn' = [turn EXCEPT ![m] = r] /\ UNCHANGED <<browser, call, flight>>
  BY DEF LoseOrder
<1> HIDE DEF r
<1>7. QED
  BY <1>2, <1>3, <1>4, <1>5, <1>6, BooksKeep

LEMMA CarryOutLateKeeps ==
  ASSUME IInv, NEW m \in Messages, CarryOutLate(m)
  PROVE  IInv'
<1>1. PICK n \in {0, 1} : turn' = [turn EXCEPT ![m].adrift = @ - 1, ![m].moved = @ + n]
  BY DEF CarryOutLate
<1>2. DEFINE r == [turn[m] EXCEPT !.adrift = @ - 1, !.moved = @ + n]
<1>3. turn[m] \in Turn /\ ordered' \in Nat /\ turn[m].adrift > 0
  BY DEF IInv, TypeOK, CarryOutLate
<1>4. r \in Turn
  <2>1. turn[m].adrift - 1 \in Nat /\ turn[m].moved + n \in Nat
    BY <1>3 DEF Turn
  <2>2. QED
    BY <1>3, <2>1, Zenon DEF Turn
<1>5. r.started = turn[m].started /\ r.at = turn[m].at /\ r.asked = turn[m].asked
        /\ r.done = turn[m].done /\ r.failed = turn[m].failed
        /\ r.adrift = turn[m].adrift - 1 /\ r.moved = turn[m].moved + n
  BY <1>3 DEF Turn
<1>6. r.done <= r.moved /\ r.moved + r.adrift <= r.done + r.failed /\ (r.asked => r.at = "running")
  BY <1>3, <1>5 DEF IInv, OrdersAreCounted, Turn
<1>7. turn' = [turn EXCEPT ![m] = r] /\ UNCHANGED <<browser, call, flight>>
  BY <1>1 DEF CarryOutLate
<1> HIDE DEF r
<1>8. QED
  BY <1>3, <1>4, <1>5, <1>6, <1>7, BooksKeep

LEMMA EndTurnKeeps ==
  ASSUME IInv, NEW m \in Messages, EndTurn(m)
  PROVE  IInv'
<1>1. PICK end \in {"replied", "failed"} : turn' = [turn EXCEPT ![m].at = end, ![m].as = NoUser]
  BY DEF EndTurn
<1>2. DEFINE r == [turn[m] EXCEPT !.at = end, !.as = NoUser]
<1>3. turn[m] \in Turn /\ ordered' \in Nat /\ turn[m].at = "running" /\ ~turn[m].asked
  BY DEF IInv, TypeOK, EndTurn
<1>4. r \in Turn /\ r.started = turn[m].started /\ ~r.asked /\ r.done = turn[m].done
        /\ r.failed = turn[m].failed /\ r.adrift = turn[m].adrift /\ r.moved = turn[m].moved
  BY <1>3 DEF Turn, Someone
<1>5. r.done <= r.moved /\ r.moved + r.adrift <= r.done + r.failed
  BY <1>4 DEF IInv, OrdersAreCounted
<1>6. turn' = [turn EXCEPT ![m] = r] /\ UNCHANGED <<browser, call, flight>>
  BY <1>1 DEF EndTurn
<1> HIDE DEF r
<1>7. QED
  BY <1>3, <1>4, <1>5, <1>6, BooksKeep

-----------------------------------------------------------------------------
LEMMA StepKeeps == IInv /\ [Next]_vars => IInv'
<1> SUFFICES ASSUME IInv, [Next]_vars PROVE IInv'
  OBVIOUS
<1>1. CASE Expire \/ Elsewhere
  BY <1>1, ExpireKeeps, ElsewhereKeeps
<1>2. ASSUME NEW t \in Tabs, Browser(t) PROVE IInv'
  <2>1. CASE Open(t)
    <3>1. events' \in Nat
      BY <2>1 DEF IInv, TypeOK, Open
    <3>2. QED
      BY <2>1, <3>1, LoadKeeps DEF Open
  <2>2. CASE Send(t)
    BY <2>2, SendKeeps
  <2>3. QED
    BY <1>2, <2>1, <2>2, PageKeeps DEF Browser
<1>3. ASSUME NEW m \in Messages, Progress(m) \/ Order(m) \/ Faults(m) PROVE IInv'
  BY <1>3, AcceptKeeps, RefuseKeeps, SignInAgainKeeps, RedirectKeeps, EndKeeps, OrderKeeps,
     AnswerOrderKeeps, LoseOrderKeeps, CarryOutLateKeeps, EndTurnKeeps
     DEF Progress, Faults
<1>4. CASE UNCHANGED vars
  BY <1>4 DEF IInv, TypeOK, RequestsAreFirst, OrdersAreCounted, CallsAreInTabs,
              AnsweredIsReplied, Waiting, vars, browser
<1>5. QED
  BY <1>1, <1>2, <1>3, <1>4 DEF Next

(* The inductive invariant holds in every state.                             *)
LEMMA Invariance == Spec => []IInv
<1>1. Init => IInv
  BY InitHolds
<1>2. QED
  BY <1>1, StepKeeps, PTL DEF Spec

-----------------------------------------------------------------------------
(* Every variable of the browser and of the messages keeps its type: api.js  *)
(* makes no request a third time.                                            *)
THEOREM TypeCorrect == Spec => []TypeOK
<1>1. IInv => TypeOK
  BY DEF IInv
<1>2. QED
  BY <1>1, Invariance, PTL

(* A message that was sent once starts one turn of the agent at most, though *)
(* _json of api.js may make its request twice.                               *)
THEOREM ActedOnOnce == Spec => []OneTurnPerMessage
<1>1. IInv => OneTurnPerMessage
  BY DEF IInv, RequestsAreFirst, OneTurnPerMessage
<1>2. QED
  BY <1>1, Invariance, PTL

(* When a reply is on the page, the turn behind it is over and the transfers *)
(* it made lie between those it was told of and those it gave up on.         *)
THEOREM RepliesCoverTheMoney == Spec => []ReplyCoversTheMoney
<1>1. IInv => ReplyCoversTheMoney
  BY DEF IInv, OrdersAreCounted, AnsweredIsReplied, ReplyCoversTheMoney
<1>2. QED
  BY <1>1, Invariance, PTL

-----------------------------------------------------------------------------
(***************************************************************************)
(* Whom a chat acts for.  In a tab where no exchange of identity has       *)
(* crossed another one, the cookie, the name it remembers and the requests *)
(* on their way can only name whom the page shows, or nobody.              *)
(***************************************************************************)
Agrees(user, name) == name \in {user, NoUser}

(* The page, and the first answer it waits for.                              *)
ShownAgrees(t) ==
  /\ tab[t].boot # Idle => tab[t].me = NoUser /\ tab[t].pick = Idle /\ ~tab[t].out
  /\ tab[t].pick # Idle => tab[t].me = NoUser
  /\ tab[t].out => tab[t].me # NoUser
  /\ tab[t].boot \in Users => Agrees(tab[t].boot, cookie) /\ Agrees(tab[t].boot, tab[t].last)
  /\ tab[t].me # NoUser => Agrees(tab[t].me, cookie) /\ Agrees(tab[t].me, tab[t].last)

(* Its messages: a silent sign-in is alone and names whom the tab remembers. *)
CallAgrees(t, m) ==
  /\ call[m].at = "reauth" => /\ tab[t].boot = Idle /\ tab[t].pick = Idle /\ ~tab[t].out
                              /\ call[m].name = tab[t].last
  /\ call[m].live => tab[t].me # NoUser /\ call[m].shown = tab[t].me
  /\ call[m].live /\ flight[m] \in Users => flight[m] = tab[t].me

(* No other tab may set or delete the cookie.                                *)
Quiet(t) ==
  /\ tab[t].pick = Idle /\ ~tab[t].out
  /\ \A m \in Messages : call[m].tab = t => call[m].at # "reauth"

IdentityInv ==
  \A t \in clean :
    /\ ShownAgrees(t)
    /\ \A m \in Messages : call[m].tab = t => CallAgrees(t, m)
    /\ \A u \in Tabs \ {t} : Quiet(u)

LEMMA SettledFields ==
  ASSUME NEW end
  PROVE  Settled(end).live = FALSE /\ Settled(end).at = end
BY DEF Settled, NoCall

(* An identity is loaded with the page; its calls are gone.                  *)
LEMMA LoadAgrees ==
  ASSUME IInv, IdentityInv, NEW t \in Tabs, Load(t), UNCHANGED <<keeps, cookie, jar, stored>>
  PROVE  IdentityInv'
<1> DEFINE loaded == [ClosedTab EXCEPT !.open = TRUE, !.last = stored, !.boot = cookie]
<1>1. /\ tab' = [tab EXCEPT ![t] = loaded] /\ DOMAIN tab = Tabs
      /\ \A m \in Messages : call'[m] = IF call[m].tab = t THEN Settled("failed") ELSE call[m]
      /\ UNCHANGED <<flight, cookie>>
      /\ clean' \in {clean \cup {t}, clean \ {t}}
      /\ t \in clean' => /\ stored = cookie \/ NoUser \in {stored, cookie}
                         /\ \A u \in Tabs \ {t} : ~Exchanging(u)
  BY DEF Load, IInv, TypeOK
<1>2. /\ tab'[t].me = NoUser /\ tab'[t].pick = Idle /\ ~tab'[t].out
      /\ tab'[t].boot = cookie /\ tab'[t].last = stored
      /\ \A u \in Tabs \ {t} : tab'[u] = tab[u]
  BY <1>1 DEF ClosedTab
<1> HIDE DEF loaded
<1>3. /\ \A m \in Messages : call[m].tab = t => ~call'[m].live /\ call'[m].at = "failed"
      /\ \A m \in Messages : call[m].tab # t => call'[m] = call[m]
  BY <1>1, SettledFields
<1>4. clean \subseteq Tabs /\ cookie \in Someone /\ stored \in Someone
  BY DEF IInv, TypeOK
<1>5. \A m \in Messages : call'[m].at = "reauth" \/ call'[m].live => call[m].tab # t /\ call'[m] = call[m]
  BY <1>3
<1>6. ASSUME NEW u \in clean'
      PROVE  ShownAgrees(u)' /\ \A m \in Messages : call'[m].tab = u => CallAgrees(u, m)'
  <2>1. CASE u = t
    BY <2>1, <1>1, <1>2, <1>4, <1>5, <1>6, ChatAssumption DEF ShownAgrees, CallAgrees, Agrees, Someone
  <2>2. CASE u # t
    <3>1. u \in clean /\ u \in Tabs
      BY <2>2, <1>1, <1>4
    <3>2. ShownAgrees(u)'
      BY <3>1, <2>2, <1>1, <1>2 DEF IdentityInv, ShownAgrees, Agrees
    <3>3. \A m \in Messages : call'[m].tab = u => CallAgrees(u, m)'
      BY <3>1, <2>2, <1>1, <1>2, <1>5 DEF IdentityInv, CallAgrees
    <3>4. QED
      BY <3>2, <3>3
  <2>3. QED
    BY <2>1, <2>2
<1>7. ASSUME NEW u \in clean', NEW v \in Tabs \ {u}
      PROVE  Quiet(v)'
  <2>1. CASE v = t
    BY <2>1, <1>2, <1>5 DEF Quiet
  <2>2. CASE v # t /\ u = t
    <3>1. ~Exchanging(v)
      BY <2>2, <1>1, <1>7
    <3>2. QED
      BY <3>1, <2>2, <1>2, <1>5 DEF Exchanging, MessagesOf, Quiet
  <2>3. CASE v # t /\ u # t
    <3>1. u \in clean /\ Quiet(v)
      BY <2>3, <1>1 DEF IdentityInv
    <3>2. QED
      BY <3>1, <2>3, <1>2, <1>5 DEF Quiet
  <2>4. QED
    BY <2>1, <2>2, <2>3
<1>8. QED
  BY <1>6, <1>7 DEF IdentityInv

(* Steps that leave the pages alone, and of the calls at most end some.      *)
LEMMA QuietStepAgrees ==
  ASSUME IInv, IdentityInv, UNCHANGED <<cookie, tab>>, clean' \subseteq clean,
         \A m \in Messages : \/ call'[m] = call[m]
                             \/ ~call'[m].live /\ call'[m].at # "reauth",
         \A m \in Messages : flight'[m] = flight[m] \/ flight'[m] \notin Users
  PROVE  IdentityInv'
BY DEF IdentityInv, ShownAgrees, CallAgrees, Quiet

(* A person begins to sign in or out: that is the one exchange under way.    *)
LEMMA BeginAgrees ==
  ASSUME IInv, IdentityInv, NEW t \in Tabs, (\E user \in Users : Pick(t, user)) \/ SignOut(t)
  PROVE  IdentityInv'
<1>1. /\ UNCHANGED <<cookie, call, flight>> /\ clean' = Crossed(t) /\ tab \in [Tabs -> Tab]
      /\ \/ \E user \in Users : tab' = [tab EXCEPT ![t].pick = user] /\ tab[t].me = NoUser
         \/ tab' = [tab EXCEPT ![t].out = TRUE] /\ tab[t].me # NoUser
  BY DEF Pick, SignOut, IInv, TypeOK
<1>2. /\ \A u \in Tabs \ {t} : tab'[u] = tab[u]
      /\ tab'[t].boot = tab[t].boot /\ tab'[t].me = tab[t].me /\ tab'[t].last = tab[t].last
      /\ \/ tab'[t].pick \in Users /\ tab'[t].out = tab[t].out /\ tab[t].me = NoUser
         \/ tab'[t].out /\ tab'[t].pick = tab[t].pick /\ tab[t].me # NoUser
  BY <1>1 DEF Tab
<1>3. \A u \in clean' : u = t /\ u \in clean /\ ~Exchanging(t)
  BY <1>1 DEF Crossed
<1>4. ASSUME t \in clean'
      PROVE  /\ ShownAgrees(t)' /\ \A m \in Messages : call'[m].tab = t => CallAgrees(t, m)'
             /\ \A u \in Tabs \ {t} : Quiet(u)'
  <2>1. /\ tab[t].boot = Idle /\ tab[t].pick = Idle /\ ~tab[t].out
        /\ \A m \in Messages : call[m].tab = t => call[m].at # "reauth"
    BY <1>3, <1>4 DEF Exchanging, MessagesOf
  <2>2. ShownAgrees(t)'
    BY <2>1, <1>1, <1>2, <1>3, <1>4, ChatAssumption DEF IdentityInv, ShownAgrees, Agrees
  <2>3. \A m \in Messages : call'[m].tab = t => CallAgrees(t, m)'
    BY <2>1, <1>1, <1>2, <1>3, <1>4 DEF IdentityInv, CallAgrees
  <2>4. \A u \in Tabs \ {t} : Quiet(u)'
    BY <1>1, <1>2, <1>3, <1>4 DEF IdentityInv, Quiet
  <2>5. QED
    BY <2>2, <2>3, <2>4
<1>5. QED
  BY <1>3, <1>4 DEF IdentityInv

(* The answers to a page: no other tab that counts is affected, since none   *)
(* of them may be awaited while another tab is clean.                        *)
LEMMA AnswerAgrees ==
  ASSUME IInv, IdentityInv, NEW t \in Tabs, AnswerMe(t) \/ AnswerPick(t) \/ AnswerSignOut(t)
  PROVE  IdentityInv'
<1>1. /\ UNCHANGED flight /\ clean' \subseteq clean /\ tab \in [Tabs -> Tab] /\ clean \subseteq Tabs
      /\ call \in [Messages -> Call]
  BY DEF AnswerMe, AnswerPick, AnswerSignOut, IInv, TypeOK
<1>2. /\ \A u \in Tabs \ {t} : tab'[u] = tab[u]
      /\ tab'[t].pick \in {tab[t].pick, Idle} /\ (tab'[t].out => tab[t].out)
  <2>1. CASE AnswerMe(t)
    <3>1. PICK user \in Someone : Show(t, user)
      BY <2>1, SomeoneIsShown
    <3>2. QED
      BY <1>1, <3>1 DEF Show, Tab
  <2>2. CASE AnswerPick(t) \/ AnswerSignOut(t)
    BY <1>1, <2>2 DEF AnswerPick, AnswerSignOut, Tab
  <2>3. QED
    BY <2>1, <2>2
<1>3. \A m \in Messages :
        /\ call'[m].tab = call[m].tab /\ call'[m].at = call[m].at /\ call'[m].shown = call[m].shown
        /\ call'[m].name = call[m].name
        /\ call'[m].live => call[m].live
        /\ call[m].tab # t => call'[m] = call[m]
  <2>1. CASE AnswerMe(t)
    <3>1. PICK user \in Someone : Show(t, user)
      BY <2>1, SomeoneIsShown
    <3>2. QED
      BY <1>1, <3>1 DEF Show, Call
  <2>2. CASE AnswerPick(t) \/ AnswerSignOut(t)
    BY <1>1, <2>2 DEF AnswerPick, AnswerSignOut, Call
  <2>3. QED
    BY <2>1, <2>2
<1>4. \A u \in Tabs : Quiet(u) => Quiet(u)'
  BY <1>2, <1>3 DEF Quiet
<1>5. \A u \in clean : u # t => cookie' \in {cookie, NoUser}
  <2>1. AnswerPick(t) => tab[t].pick # Idle
    BY DEF AnswerPick
  <2>2. \A u \in clean : u # t => tab[t].pick = Idle
    BY DEF IdentityInv, Quiet
  <2>3. QED
    BY <2>1, <2>2 DEF AnswerMe, AnswerSignOut
<1>6. ASSUME NEW u \in clean', u # t
      PROVE  ShownAgrees(u)' /\ \A m \in Messages : call'[m].tab = u => CallAgrees(u, m)'
  <2>1. tab'[u] = tab[u] /\ u \in Tabs /\ u \in clean
    BY <1>1, <1>2, <1>6
  <2>2. ShownAgrees(u)'
    BY <2>1, <1>5, <1>6, ChatAssumption DEF IdentityInv, ShownAgrees, Agrees
  <2>3. \A m \in Messages : call'[m].tab = u => CallAgrees(u, m)'
    BY <2>1, <1>1, <1>3, <1>6 DEF IdentityInv, CallAgrees
  <2>4. QED
    BY <2>2, <2>3
<1>7. ASSUME t \in clean'
      PROVE  ShownAgrees(t)' /\ \A m \in Messages : call'[m].tab = t => CallAgrees(t, m)'
  <2>1. ShownAgrees(t) /\ \A m \in Messages : call[m].tab = t => CallAgrees(t, m)
    BY <1>1, <1>7 DEF IdentityInv
  <2>2. CASE AnswerMe(t)
    <3>1. PICK user \in (Users \cap {tab[t].boot}) \cup {NoUser} :
            Show(t, user) /\ tab[t].boot # Idle /\ cookie' = cookie
      BY <2>2, <1>7 DEF AnswerMe, Principal
    <3>2. /\ tab'[t].me = user /\ tab'[t].boot = Idle /\ tab'[t].last = tab[t].last
          /\ tab'[t].pick = tab[t].pick /\ tab'[t].out = tab[t].out
      BY <3>1, <1>1 DEF Show, Tab
    <3>3. user # NoUser => tab[t].boot = user /\ user \in Users
      BY <3>1
    <3>4. ShownAgrees(t)'
      BY <3>1, <3>2, <3>3, <2>1, ChatAssumption DEF ShownAgrees, Agrees, Someone
    <3>5. \A m \in Messages : call'[m].tab = t => CallAgrees(t, m)'
      BY <3>1, <3>2, <2>1, <1>1, <1>3 DEF ShownAgrees, CallAgrees
    <3>6. QED
      BY <3>4, <3>5
  <2>3. CASE AnswerPick(t)
    <3>1. \/ /\ cookie' = tab[t].pick
             /\ tab' = [tab EXCEPT ![t].me = tab[t].pick, ![t].last = tab[t].pick, ![t].pick = Idle]
          \/ /\ tab' = [tab EXCEPT ![t].pick = Idle]
             /\ cookie' = cookie
      BY <2>3 DEF AnswerPick
    <3>2. /\ tab'[t].boot = tab[t].boot /\ tab'[t].out = tab[t].out /\ tab'[t].pick = Idle
          /\ \/ cookie' = tab[t].pick /\ tab'[t].me = tab[t].pick /\ tab'[t].last = tab[t].pick
             \/ cookie' = cookie /\ tab'[t].me = tab[t].me /\ tab'[t].last = tab[t].last
      BY <3>1, <1>1 DEF Tab
    <3>3. tab[t].pick # Idle /\ tab[t].pick \in Users
      BY <2>3, <1>1 DEF AnswerPick, Tab
    <3>4. tab[t].me = NoUser /\ tab[t].boot = Idle /\ ~tab[t].out
      BY <3>3, <2>1 DEF ShownAgrees
    <3>5. ShownAgrees(t)'
      BY <3>2, <3>3, <3>4, <2>1, ChatAssumption DEF ShownAgrees, Agrees
    <3>6. \A m \in Messages : call'[m].tab = t => CallAgrees(t, m)'
      BY <3>3, <3>4, <2>1, <1>1, <1>3 DEF CallAgrees
    <3>7. QED
      BY <3>5, <3>6
  <2>4. CASE AnswerSignOut(t)
    <3>1. /\ tab[t].out
          /\ \/ /\ cookie' = NoUser
                /\ tab' = [tab EXCEPT ![t].out = FALSE, ![t].me = NoUser]
                /\ \A m \in Messages : call[m].tab = t => call'[m] = [call[m] EXCEPT !.live = FALSE]
             \/ /\ tab' = [tab EXCEPT ![t].out = FALSE]
                /\ UNCHANGED <<cookie, call>>
      BY <2>4 DEF AnswerSignOut
    <3>2. /\ tab'[t].boot = tab[t].boot /\ tab'[t].pick = tab[t].pick /\ ~tab'[t].out
          /\ tab'[t].last = tab[t].last
          /\ \/ cookie' = NoUser /\ tab'[t].me = NoUser
             \/ tab'[t].me = tab[t].me /\ cookie' = cookie
      BY <3>1, <1>1 DEF Tab
    <3>3. tab[t].boot = Idle /\ tab[t].me # NoUser /\ tab[t].pick = Idle
      BY <3>1, <2>1 DEF ShownAgrees
    <3>4. ShownAgrees(t)'
      BY <3>2, <3>3, <2>1, ChatAssumption DEF ShownAgrees, Agrees
    <3>5. CASE tab' = [tab EXCEPT ![t].out = FALSE] /\ UNCHANGED <<cookie, call>>
      <4>1. tab'[t].me = tab[t].me
        BY <3>5, <1>1 DEF Tab
      <4>2. QED
        BY <4>1, <3>5, <3>2, <3>3, <3>4, <2>1, <1>1 DEF CallAgrees
    <3>6. CASE \A m \in Messages : call[m].tab = t => call'[m] = [call[m] EXCEPT !.live = FALSE]
      <4>1. \A m \in Messages : call[m].tab = t => ~call'[m].live
        BY <3>6, <1>1 DEF Call
      <4>2. QED
        BY <4>1, <3>2, <3>3, <2>1, <1>1, <1>3, <3>4 DEF CallAgrees
    <3>7. QED
      BY <3>1, <3>5, <3>6, Zenon
  <2>5. QED
    BY <2>2, <2>3, <2>4
<1>8. QED
  BY <1>1, <1>4, <1>6, <1>7 DEF IdentityInv

(* What expires names nobody from then on.                                   *)
LEMMA ExpireAgrees ==
  ASSUME IInv, IdentityInv, Expire
  PROVE  IdentityInv'
<1>1. /\ cookie' = NoUser /\ UNCHANGED <<clean, call>> /\ tab \in [Tabs -> Tab] /\ clean \subseteq Tabs
      /\ tab' = [t \in Tabs |->
                   IF tab[t].boot \in Users THEN [tab[t] EXCEPT !.boot = Lapsed] ELSE tab[t]]
      /\ \A m \in Messages : flight'[m] \notin Users
  BY ChatAssumption DEF Expire, IInv, TypeOK
<1>2. \A t \in Tabs :
        /\ tab'[t].me = tab[t].me /\ tab'[t].last = tab[t].last
        /\ tab'[t].pick = tab[t].pick /\ tab'[t].out = tab[t].out
        /\ tab'[t].boot = IF tab[t].boot \in Users THEN Lapsed ELSE tab[t].boot
  BY <1>1 DEF Tab
<1>3. \A t \in clean : ShownAgrees(t)'
  BY <1>1, <1>2, ChatAssumption DEF IdentityInv, ShownAgrees, Agrees
<1>4. \A t \in clean, m \in Messages : call'[m].tab = t => CallAgrees(t, m)'
  BY <1>1, <1>2, ChatAssumption DEF IdentityInv, CallAgrees
<1>5. \A t \in clean : \A u \in Tabs \ {t} : Quiet(u)'
  BY <1>1, <1>2 DEF IdentityInv, Quiet
<1>6. QED
  BY <1>1, <1>3, <1>4, <1>5 DEF IdentityInv

(* A message is sent with the cookie of the moment.                          *)
LEMMA SendAgrees ==
  ASSUME IInv, IdentityInv, NEW t \in Tabs, Send(t)
  PROVE  IdentityInv'
<1>1. PICK m \in Messages :
        /\ call' = [call EXCEPT ![m] = [tab |-> t, shown |-> tab[t].me, live |-> TRUE,
                                        at |-> "calling", tries |-> 1, name |-> NoUser]]
        /\ flight' = [flight EXCEPT ![m] = cookie]
  BY DEF Send
<1>2. UNCHANGED <<cookie, tab, clean>> /\ tab[t].me # NoUser
  BY DEF Send, browser
<1>3. /\ call'[m].tab = t /\ call'[m].shown = tab[t].me /\ call'[m].at = "calling"
      /\ flight'[m] = cookie
      /\ \A n \in Messages \ {m} : call'[n] = call[n] /\ flight'[n] = flight[n]
  BY <1>1 DEF IInv, TypeOK
<1>4. \A u \in clean : ShownAgrees(u)' /\ \A v \in Tabs \ {u} : Quiet(v)'
  BY <1>2, <1>3 DEF IdentityInv, ShownAgrees, Quiet
<1>5. \A u \in clean, n \in Messages : call'[n].tab = u => CallAgrees(u, n)'
  BY <1>2, <1>3, ChatAssumption DEF IdentityInv, ShownAgrees, CallAgrees, Agrees
<1>6. QED
  BY <1>2, <1>4, <1>5 DEF IdentityInv

(* A silent sign-in begins where no other exchange is under way.             *)
LEMMA RefuseAgrees ==
  ASSUME IInv, IdentityInv, NEW m \in Messages, Refuse(m)
  PROVE  IdentityInv'
<1>1. /\ UNCHANGED <<cookie, tab>> /\ flight' = [flight EXCEPT ![m] = Idle]
      /\ \A n \in Messages : flight'[n] = flight[n] \/ flight'[n] \notin Users
  BY ChatAssumption DEF Refuse, IInv, TypeOK
<1>2. CASE /\ call[m].at = "calling"
           /\ call' = [call EXCEPT ![m].at = "reauth", ![m].name = tab[call[m].tab].last]
           /\ clean' = Crossed(call[m].tab)
  <2>1. call[m].tab \in Tabs /\ call[m] \in Call /\ call \in [Messages -> Call]
    BY <1>2 DEF IInv, TypeOK, CallsAreInTabs, Waiting
  <2> PICK t \in Tabs : t = call[m].tab
    BY <2>1
  <2>2. /\ call'[m].tab = t /\ call'[m].shown = call[m].shown /\ call'[m].live = call[m].live
        /\ call'[m].name = tab[t].last
        /\ \A n \in Messages \ {m} : call'[n] = call[n]
    BY <1>2, <2>1 DEF Call
  <2>3. \A u \in clean' : u = t /\ u \in clean /\ ~Exchanging(t)
    BY <1>2 DEF Crossed
  <2>4. ASSUME t \in clean'
        PROVE  /\ ShownAgrees(t)' /\ \A n \in Messages : call'[n].tab = t => CallAgrees(t, n)'
               /\ \A u \in Tabs \ {t} : Quiet(u)'
    <3>1. /\ tab[t].boot = Idle /\ tab[t].pick = Idle /\ ~tab[t].out /\ t \in clean
      BY <2>3, <2>4 DEF Exchanging
    <3>2. ShownAgrees(t)'
      BY <3>1, <1>1 DEF IdentityInv, ShownAgrees
    <3>3. \A n \in Messages : call'[n].tab = t => CallAgrees(t, n)'
      BY <3>1, <2>2, <1>1 DEF IdentityInv, CallAgrees
    <3>4. \A u \in Tabs \ {t} : Quiet(u)'
      BY <3>1, <2>2, <1>1 DEF IdentityInv, Quiet
    <3>5. QED
      BY <3>2, <3>3, <3>4
  <2>5. QED
    BY <2>3, <2>4 DEF IdentityInv
<1>3. CASE call' = [call EXCEPT ![m] = Settled("failed")] /\ UNCHANGED clean
  <2>1. \A n \in Messages : \/ call'[n] = call[n]
                            \/ ~call'[n].live /\ call'[n].at # "reauth"
    BY <1>3, SettledFields DEF IInv, TypeOK
  <2>2. QED
    BY <1>1, <1>3, <2>1, QuietStepAgrees
<1>4. CASE UNCHANGED <<call, clean>>
  BY <1>1, <1>4, QuietStepAgrees
<1>5. QED
  BY <1>2, <1>3, <1>4 DEF Refuse

(* The silent sign-in makes the cookie name whom the page shows; were it in  *)
(* another tab than a clean one, that one would not be clean.                *)
LEMMA SignInAgainAgrees ==
  ASSUME IInv, IdentityInv, NEW m \in Messages, SignInAgain(m)
  PROVE  IdentityInv'
<1> PICK t \in Tabs : t = call[m].tab
  BY DEF SignInAgain, IInv, TypeOK, CallsAreInTabs, Waiting
<1>1. /\ call[m].at = "reauth" /\ call[m].name # NoUser /\ cookie' = call[m].name
      /\ UNCHANGED <<tab, clean>> /\ call[m] \in Call /\ clean \subseteq Tabs
      /\ flight'[m] = call[m].name
  BY DEF SignInAgain, IInv, TypeOK, CallsAreInTabs, Waiting
<1>2. /\ call'[m].tab = t /\ call'[m].shown = call[m].shown /\ call'[m].live = call[m].live
      /\ call'[m].at = "calling"
      /\ \A n \in Messages \ {m} : call'[n] = call[n] /\ flight'[n] = flight[n]
  BY <1>1 DEF SignInAgain, IInv, TypeOK, Call
<1>3. \A u \in clean : u = t
  BY <1>1 DEF IdentityInv, Quiet
<1>4. ASSUME t \in clean
      PROVE  /\ ShownAgrees(t)' /\ \A n \in Messages : call'[n].tab = t => CallAgrees(t, n)'
             /\ \A u \in Tabs \ {t} : Quiet(u)'
  <2>1. CallAgrees(t, m) /\ ShownAgrees(t)
    BY <1>4 DEF IdentityInv
  <2>2. /\ tab[t].boot = Idle /\ call[m].name = tab[t].last
        /\ tab[t].me # NoUser => call[m].name = tab[t].me
    BY <2>1, <1>1 DEF CallAgrees, ShownAgrees, Agrees
  <2>3. ShownAgrees(t)'
    BY <2>1, <2>2, <1>1, ChatAssumption DEF ShownAgrees, Agrees
  <2>4. \A n \in Messages : call'[n].tab = t => CallAgrees(t, n)'
    BY <2>1, <2>2, <1>1, <1>2, <1>4 DEF IdentityInv, CallAgrees
  <2>5. \A u \in Tabs \ {t} : Quiet(u)'
    BY <1>1, <1>2, <1>4 DEF IdentityInv, Quiet
  <2>6. QED
    BY <2>3, <2>4, <2>5
<1>5. QED
  BY <1>1, <1>3, <1>4 DEF IdentityInv

LEMMA StepAgrees == IInv /\ IdentityInv /\ [Next]_vars => IdentityInv'
<1> SUFFICES ASSUME IInv, IdentityInv, [Next]_vars PROVE IdentityInv'
  OBVIOUS
<1>1. CASE Expire \/ Elsewhere
  <2>1. CASE Elsewhere
    BY <2>1, QuietStepAgrees DEF Elsewhere
  <2>2. QED
    BY <1>1, <2>1, ExpireAgrees
<1>2. ASSUME NEW t \in Tabs, Browser(t) PROVE IdentityInv'
  BY <1>2, LoadAgrees, BeginAgrees, AnswerAgrees, SendAgrees DEF Browser, Open
<1>3. ASSUME NEW m \in Messages, Progress(m) \/ Order(m) \/ Faults(m) PROVE IdentityInv'
  <2>1. CASE Redirect(m)
    <3>1. call[m].tab \in Tabs
      BY <2>1 DEF IInv, CallsAreInTabs, Waiting, Redirect
    <3>2. QED
      BY <2>1, <3>1, LoadAgrees DEF Redirect
  <2>2. CASE ReauthFails(m) \/ GiveUp(m) \/ Receive(m)
    <3>1. /\ \E end \in {"answered", "failed"} : call' = [call EXCEPT ![m] = Settled(end)]
          /\ UNCHANGED <<cookie, tab, clean, flight>>
      BY <2>2 DEF ReauthFails, GiveUp, Receive, browser
    <3> PICK end \in {"answered", "failed"} : call' = [call EXCEPT ![m] = Settled(end)]
      BY <3>1
    <3>2. \A n \in Messages : \/ call'[n] = call[n]
                              \/ ~call'[n].live /\ call'[n].at # "reauth"
      BY SettledFields DEF IInv, TypeOK
    <3>3. QED
      BY <3>1, <3>2, QuietStepAgrees
  <2>3. CASE Accept(m)
    <3>1. \A n \in Messages : flight'[n] = flight[n] \/ flight'[n] \notin Users
      BY <2>3, ChatAssumption DEF Accept, IInv, TypeOK
    <3>2. QED
      BY <2>3, <3>1, QuietStepAgrees DEF Accept, browser
  <2>4. CASE Order(m) \/ AnswerOrder(m) \/ LoseOrder(m) \/ CarryOutLate(m) \/ EndTurn(m)
    <3>1. UNCHANGED <<browser, call, flight>>
      BY <2>4 DEF Order, AnswerOrder, LoseOrder, CarryOutLate, EndTurn
    <3>2. QED
      BY <3>1, QuietStepAgrees DEF browser
  <2>5. QED
    BY <1>3, <2>1, <2>2, <2>3, <2>4, RefuseAgrees, SignInAgainAgrees DEF Progress, Faults
<1>4. CASE UNCHANGED vars
  BY <1>4, QuietStepAgrees DEF vars, browser
<1>5. QED
  BY <1>1, <1>2, <1>3, <1>4 DEF Next

(* A turn whose request came with a cookie starts for whom the page of its   *)
(* message shows, across expiries, silent sign-ins and sign-outs, unless the *)
(* sign-ins of the browser have crossed or the jar of the proxy filled the   *)
(* page: the API takes whom the cookie of the request names (routers.py,     *)
(* session.py), which _silentReauth of api.js may have set.                  *)
THEOREM ChatsActForShown == Spec => ShownUserActs
<1>1. Init => IdentityInv
  BY DEF Init, IdentityInv
<1>2. ASSUME IInv, IdentityInv, [Next]_vars, NEW m \in Messages,
             turn'[m].started # turn[m].started, flight[m] # NoUser,
             call[m].live, call[m].tab \in clean
      PROVE  turn'[m].as = call[m].shown
  <2>1. ASSUME NEW n \in Messages,
               \/ turn' = [turn EXCEPT ![n].asked = TRUE]
               \/ AnswerOrder(n) \/ LoseOrder(n) \/ CarryOutLate(n) \/ EndTurn(n)
        PROVE  FALSE
    <3>1. turn \in [Messages -> Turn]
      BY <1>2 DEF IInv, TypeOK
    <3>2. turn'[m].started = turn[m].started
      BY <2>1, <3>1 DEF AnswerOrder, LoseOrder, CarryOutLate, EndTurn, Turn
    <3>3. QED
      BY <1>2, <3>2
  <2>2. \E n \in Messages : Accept(n)
    BY <1>2, <2>1 DEF Next, vars, Expire, Elsewhere, Browser, Open, Load, AnswerMe, Pick, AnswerPick, SignOut,
       AnswerSignOut, Send, Progress, Faults, Refuse, SignInAgain, Redirect, ReauthFails, Receive,
       GiveUp, Order
  <2>3. PICK n \in Messages : Accept(n)
    BY <2>2
  <2>4. n = m
    BY <1>2, <2>3 DEF Accept, IInv, TypeOK
  <2>5. flight[m] \in Users /\ turn'[m].as = flight[m]
    BY <1>2, <2>3, <2>4 DEF Accept, IInv, TypeOK, Turn, Principal
  <2>6. CallAgrees(call[m].tab, m)
    BY <1>2 DEF IdentityInv
  <2>7. QED
    BY <1>2, <2>5, <2>6 DEF CallAgrees
<1>3. IInv /\ IdentityInv /\ [Next]_vars =>
        [\A m \in Messages :
           turn'[m].started # turn[m].started /\ flight[m] # NoUser
               /\ call[m].live /\ call[m].tab \in clean
             => turn'[m].as = call[m].shown]_vars
  BY <1>2
<1>4. QED
  BY <1>1, <1>3, StepAgrees, Invariance, PTL DEF Spec, ShownUserActs
=============================================================================
