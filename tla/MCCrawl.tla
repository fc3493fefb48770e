------------------------------ MODULE MCCrawl ------------------------------
(* Instances of Crawl for TLC: small reference graphs over model values.   *)
EXTENDS CrawlInvariant, TLC

CONSTANTS a, b, c, d, e

WorkerSymmetry == Permutations(Workers)

(* Two start keys, one of them given twice, shared targets, and a child.   *)
CapKeys     == {a, b, c, d}
CapStart    == <<a, b, a>>
CapRefs     == a :> <<c>> @@ b :> <<d, c>> @@ c :> <<>> @@ d :> <<a>>
CapChildren == [k \in CapKeys |-> IF k = a THEN <<c, d>> ELSE <<>>]

(* Four issues that refer to each other every which way.                   *)
WebKeys     == {a, b, c, d}
WebStart    == <<a, b>>
WebRefs     == a :> <<c, b, c>> @@ b :> <<a, d>> @@ c :> <<d>> @@ d :> <<>>
WebChildren == a :> <<>> @@ b :> <<c>> @@ c :> <<>> @@ d :> <<b>>

(* One issue that refers to all the others.                                *)
StarKeys     == {a, b, c, d, e}
StarStart    == <<a>>
StarRefs     == a :> <<b, c, d, e>> @@ [k \in {b, c, d, e} |-> <<>>]
StarChildren == [k \in StarKeys |-> <<>>]
=============================================================================
