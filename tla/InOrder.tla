------------------------------ MODULE InOrder -------------------------------
(***************************************************************************)
(* A loop over a sequence that carries a value along.  It is the FoldLeft  *)
(* of SequencesExt, with what the loop runs over and the value so far      *)
(* bound by set constructors: a body that mentions them several times has  *)
(* them evaluated once.                                                    *)
(***************************************************************************)
LOCAL INSTANCE Naturals
LOCAL INSTANCE Sequences

Apply(Op(_), x) == CHOOSE v \in {Op(y) : y \in {x}} : TRUE

ForEach(s, init, body(_, _)) ==
  LET loop(q) ==
        LET after[i \in 0 .. Len(q)] ==
              IF i = 0 THEN init ELSE Apply(LAMBDA acc : body(acc, q[i]), after[i - 1])
        IN  after[Len(q)]
  IN  Apply(loop, s)

(* The elements of a sequence that are in a set, in their order.           *)
Only(s, set) ==
  LET among(t) == ForEach(s, << >>, LAMBDA acc, x : IF x \in t THEN Append(acc, x) ELSE acc)
  IN  Apply(among, set)
=============================================================================
