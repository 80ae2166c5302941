------------------------ MODULE MCPolymarketCatalogue ------------------------
(* Two series, one of them with categories of its own, and a tag (t) that is *)
(* found below two listed ones (p, q).                                       *)
EXTENDS PolymarketCatalogue

CONSTANTS s1, s2, e1, e2, m1, p, q, t

MCEventOf == (m1 :> e1)
MCSeriesOf == (e1 :> s1) @@ (e2 :> s2)
MCTagsOf == (e1 :> {t}) @@ (e2 :> {})
MCChildren == (p :> {t}) @@ (q :> {t}) @@ (t :> {})
MCBucket == (s1 :> 1) @@ (s2 :> 1)
MCVolume == (s1 :> 1) @@ (s2 :> 2)
=============================================================================
