------------------------------- MODULE Collections -------------------------------
(***************************************************************************)
(* What the code does with its dicts and lists.  TLC's @@ and :> and the   *)
(* SelectSeq of Sequences would do for model checking; these say the same  *)
(* by definitions that a proof can expand.                                 *)
(***************************************************************************)
EXTENDS SequencesExt

(* {**g, **f}: what f says wins.                                             *)
Over(f, g) == [k \in DOMAIN f \cup DOMAIN g |-> IF k \in DOMAIN f THEN f[k] ELSE g[k]]

(* table[key] = value.                                                       *)
Put(table, key, value) ==
  [k \in DOMAIN table \cup {key} |-> IF k = key THEN value ELSE table[k]]

(* [x for x in s if x in kept].                                              *)
Chosen(s, kept) ==
  FoldLeft(LAMBDA out, x : IF x \in kept THEN Append(out, x) ELSE out, << >>, s)
=============================================================================
