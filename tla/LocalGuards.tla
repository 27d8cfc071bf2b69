------------------------------ MODULE LocalGuards ------------------------------
(***************************************************************************)
(* The guards that decide without asking anyone: how those of guardrails-  *)
(* service/app/core/guards/ come from what they find in a text to their    *)
(* verdict, and how pii-detect redacts the entities it is told of.         *)
(*                                                                         *)
(* A text is a bag of pieces, sentences or words or payload fields, and a  *)
(* guard takes each piece for something: a match of its patterns, a bias   *)
(* of some severity, a sentence in or out of scope.  What its expressions  *)
(* and lists match is therefore part of the guard.  The text grows piece   *)
(* by piece, so that the steps compare each text with the longer one.      *)
(***************************************************************************)
EXTENDS Naturals, Collections

CONSTANTS
  Pieces,       (* of which texts are made                                   *)
  LocalChecks,  (* guards: their settings, what they take each piece for,    *)
                (* and two bounds: how many pieces, and entities, their      *)
                (* texts have                                                *)
  Entities,     (* what Presidio may report: [from, to) with the length of   *)
                (* the label that replaces it, and a score                   *)
  Positions     (* characters of the text they are in                        *)

VARIABLES
  local,     (* the guard                                                    *)
  text,      (* how many of each piece the text has                          *)
  entities   (* what Presidio has reported, in its order                     *)

localVars == <<local, text, entities>>

(* What a guard is there to find, and what speaks for a text.  What breaks   *)
(* the validator of a schema ("raises") is neither.                          *)
Harm == {"match", "low", "medium", "high", "phrase", "word", "out", "unsupported", "violation"}
Help == {"keyword", "in", "supported"}

(* A guard has one of nine verdicts, and for the length and the patterns of  *)
(* an injection nothing speaks.                                              *)
ASSUME LocalAssumption ==
  /\ IsFiniteSet(Pieces)
  /\ \A c \in LocalChecks :
       /\ c.kind \in {"pattern", "length", "injection", "bias", "topic", "scope", "source", "schema", "pii"}
       /\ {c.least, c.most} \subseteq Nat
       /\ c.kind \in {"length", "injection"} => \A p \in Pieces : c.sees[p] \notin Help
       /\ c.kind = "injection" => c.weight \in [Pieces -> Nat] /\ c.threshold \in Nat
       /\ c.kind \in {"scope", "source"} => {c.block, c.warn} \subseteq Nat
       /\ c.kind = "schema" => c.schema \in {"no_tool", "unknown", "declared"}
  /\ Positions \in Nat
  /\ \A e \in Entities : e.from \in Nat /\ e.to \in e.from + 1 .. Positions /\ e.label \in Nat

(* How many pieces of a text the guard takes for one of some kinds.          *)
Number(t, kinds) == MapThenSumSet(LAMBDA p : t[p], {p \in Pieces : local.sees[p] \in kinds})

Length(t) == MapThenSumSet(LAMBDA p : t[p], Pieces)

(* sql-injection, banned-substrings, toxicity by its words and secret-leak   *)
(* block a match; competitor-mentions replaces it.                           *)
PatternVerdict(t) == IF Number(t, {"match"}) = 0 THEN "allow" ELSE local.mode

LengthVerdict(t) == IF Length(t) > local.most THEN "block" ELSE "allow"

(* Each pattern counts once, with its weight, which is never negative here.  *)
InjectionVerdict(t) ==
  LET found == {p \in Pieces : t[p] > 0}
  IN  IF MapThenSumSet(LAMBDA p : local.weight[p], found) >= local.threshold
      THEN "block" ELSE "allow"

(* The worst severity decides.  One that has no rank is none.                *)
BiasVerdict(t) ==
  IF Length(t) < local.least THEN "allow"
  ELSE IF Number(t, {"high"}) > 0 THEN "block"
  ELSE IF Number(t, {"medium"}) > 0 THEN "sanitize"
  ELSE "allow"

(* A forbidden phrase comes before the words of the topic, but without such  *)
(* words the guard does nothing at all.                                      *)
TopicVerdict(t) ==
  LET ontopic == Number(t, {"keyword"})
  IN  IF \/ ~local.configured
         \/ Length(t) < local.least THEN "allow"
      ELSE IF Number(t, {"phrase"}) > 0 THEN "block"
      ELSE IF Number(t, {"keyword", "word"}) = 0 \/ ontopic > 0 \/ local.threshold = 0
      THEN "allow"
      ELSE "block"

(* A part of a whole is less than some percent of it, when a part of nothing *)
(* counts for so many percent.                                               *)
Below(part, whole, nothing, percent) ==
  IF whole = 0 THEN nothing < percent ELSE 100 * part < percent * whole

(* A score against the two thresholds of a guard, block_threshold first.     *)
Scored(part, whole, nothing) ==
  IF Below(part, whole, nothing, local.block) THEN "block"
  ELSE IF Below(part, whole, nothing, local.warn) THEN "sanitize"
  ELSE "allow"

(* Seeded fault: the score is the share of the sentences out of scope.       *)
ScopeVerdictSwapped(t) ==
  LET inside  == Number(t, {"in"})
      outside == Number(t, IF local.strict THEN {"out", "neither"} ELSE {"out"})
  IN  IF Length(t) < local.least THEN "allow"
      ELSE IF inside = 0 /\ outside >= local.most THEN "block"
      ELSE IF local.strict THEN "allow"
      ELSE Scored(outside, inside + outside, 100)

(* The share of the sentences in scope.  In the strict mode a sentence that  *)
(* is not in scope is out of it, and one in scope lets the rest through.     *)
ScopeVerdict(t) ==
  LET inside  == Number(t, {"in"})
      outside == Number(t, IF local.strict THEN {"out", "neither"} ELSE {"out"})
  IN  IF Length(t) < local.least THEN "allow"
      ELSE IF inside = 0 /\ outside >= local.most THEN "block"
      ELSE IF local.strict THEN "allow"
      ELSE Scored(inside, inside + outside, 100)

(* The share of the words that the sources have: none of no words.           *)
SourceVerdict(t) ==
  LET supported == Number(t, {"supported"})
      words     == Number(t, {"supported", "unsupported"})
  IN  IF Length(t) < local.least THEN "allow"
      ELSE IF ~local.configured THEN (IF local.strict THEN "block" ELSE "allow")
      ELSE Scored(supported, words, 0)

(* Tool arguments or results against the schema of the tool and the side.    *)
(* What the validator breaks on hides every violation there is.              *)
SchemaVerdict(t) ==
  CASE local.schema = "no_tool" -> "allow"
    [] local.schema = "unknown" -> IF local.lenient THEN "allow" ELSE "block"
    [] local.schema = "declared" ->
         IF Number(t, {"raises"}) > 0 THEN (IF local.fail_open THEN "allow" ELSE "block")
         ELSE IF Number(t, {"violation"}) > 0 /\ local.strict THEN "block" ELSE "allow"

(***************************************************************************)
(* pii-detect.                                                             *)
(***************************************************************************)
(* The entities that count; the regex engine hears of none.                  *)
Kept(reported) ==
  IF local.configured
  THEN Chosen(reported, {e \in ToSet(reported) : e.score >= local.threshold}) ELSE << >>

PiiVerdict(t, reported) ==
  IF Kept(reported) = << >> /\ Number(t, {"match"}) = 0 THEN "allow" ELSE local.mode

Label(e) == [i \in 1 .. e.label |-> 0]

Least(a, b) == IF a < b THEN a ELSE b

(* What a Python slice takes out of a text, and the label put in its place.  *)
Replace(chars, e) ==
  SubSeq(chars, 1, Least(e.from, Len(chars))) \o Label(e) \o SubSeq(chars, e.to + 1, Len(chars))

(* Seeded fault: the entities are replaced from left to right.               *)
Rightmost(reported, some) ==
  CHOOSE i \in some : \A j \in some \ {i} :
    \/ reported[i].from > reported[j].from
    \/ reported[i].from = reported[j].from /\ j < i

(* Which of some entities comes last in the order of the code: by where they *)
(* start from right to left, and of two that start together the one reported *)
(* first comes first.                                                        *)
Leftmost(reported, some) ==
  CHOOSE i \in some : \A j \in some \ {i} :
    \/ reported[i].from < reported[j].from
    \/ reported[i].from = reported[j].from /\ j < i

(* The entities are replaced in that order, so that the offsets stay true.   *)
Redact(chars, reported) ==
  MapThenFoldSet(LAMBDA i, out : Replace(out, reported[i]), chars,
                 LAMBDA i : i, LAMBDA some : Leftmost(reported, some), DOMAIN reported)

-----------------------------------------------------------------------------
LocalVerdict(t, reported) ==
  CASE local.kind = "pattern"   -> PatternVerdict(t)
    [] local.kind = "length"    -> LengthVerdict(t)
    [] local.kind = "injection" -> InjectionVerdict(t)
    [] local.kind = "bias"      -> BiasVerdict(t)
    [] local.kind = "topic"     -> TopicVerdict(t)
    [] local.kind = "scope"     -> ScopeVerdict(t)
    [] local.kind = "source"    -> SourceVerdict(t)
    [] local.kind = "schema"    -> SchemaVerdict(t)
    [] local.kind = "pii"       -> PiiVerdict(t, reported)

LocalInit ==
  /\ local \in LocalChecks
  /\ text = [p \in Pieces |-> 0]
  /\ entities = << >>

Write(p) ==
  /\ Length(text) < local.pieces
  /\ text' = [text EXCEPT ![p] = @ + 1]
  /\ UNCHANGED <<local, entities>>

Report(e) ==
  /\ local.kind = "pii"
  /\ Len(entities) < local.entities
  /\ entities' = Append(entities, e)
  /\ UNCHANGED <<local, text>>

LocalNext == (\E p \in Pieces : Write(p)) \/ (\E e \in Entities : Report(e))

LocalSpec == LocalInit /\ [][LocalNext]_localVars

-----------------------------------------------------------------------------
Strictness(verdict) == CASE verdict = "allow" -> 0 [] verdict = "sanitize" -> 1 [] OTHER -> 2

(* Nobody gets a text past a guard by adding to it what the guard is there   *)
(* to find, and no guard that has enough text to judge turns stricter on     *)
(* what speaks for it, be it by thresholds, by counts, by the order of its   *)
(* tests or by the length from which on it looks at all.                     *)
NothingHelpsHarm ==
  [][LET before == Strictness(LocalVerdict(text, entities))
         after  == Strictness(LocalVerdict(text', entities'))
     IN  /\ \A p \in Pieces :
              text'[p] > text[p] =>
                /\ local.sees[p] \in Harm => after >= before
                /\ local.sees[p] \in Help /\ Length(text) >= local.least => after <= before
         /\ entities' # entities => after >= before]_localVars

Covered(reported) == UNION {reported[i].from + 1 .. reported[i].to : i \in DOMAIN reported}

Disjoint(reported) ==
  \A i, j \in DOMAIN reported : i # j =>
    reported[i].to <= reported[j].from \/ reported[j].to <= reported[i].from

Original == [i \in 1 .. Positions |-> i]

(* Of entities that do not overlap every character is gone, every other one  *)
(* is kept in its place, and each has left one label.  Of entities that      *)
(* overlap in any way nothing is left as long as no label is longer than     *)
(* what it replaces; with a longer label the end of an entity around another *)
(* is left in the text, which is why the lengths are part of the model.      *)
RedactionIsSafe ==
  LET kept   == Kept(entities)
      out    == Redact(Original, kept)
      chars  == Chosen(out, 1 .. Positions)
      labels == [i \in DOMAIN kept |-> kept[i].label]
  IN  local.kind = "pii" =>
        /\ Disjoint(kept) =>
             /\ chars = Chosen(Original, (1 .. Positions) \ Covered(kept))
             /\ Len(out) - Len(chars) = MapThenSumSet(LAMBDA i : labels[i], DOMAIN kept)
        /\ (\A i \in DOMAIN kept : kept[i].label <= kept[i].to - kept[i].from) =>
             ToSet(chars) \cap Covered(kept) = {}
=============================================================================
