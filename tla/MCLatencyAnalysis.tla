------------------------- MODULE MCLatencyAnalysis -------------------------
(***************************************************************************)
(* An instance of LatencyTraffic: two routes to different upstreams, one with   *)
(* failed requests.  A batch is 1 request or 20, so that the p95 tells a share     *)
(* of 5 percent from more.  An int ends at 1000 and, as on amd64, all that does      *)
(* not fit becomes the least one; a safety factor of 1000 fits for the traffic        *)
(* within 200 ms and not for slower.                                              *)
(***************************************************************************)
EXTENDS LatencyTraffic, TLC

Key1 == [route |-> "r1", upstream |-> "u1", service |-> "s1"]
Key2 == [route |-> "r2", upstream |-> "u2", service |-> "s1"]

MCLabel ==
  "fast" :> [key |-> Key1, class |-> "2xx"] @@ "slow" :> [key |-> Key2, class |-> "2xx"]
    @@ "errors" :> [key |-> Key1, class |-> "5xx"]

Defaults == [route |-> All, upstream |-> All, minSamples |-> 5, quantile |-> 95,
             safety |-> 3, minConnect |-> 300, minRead |-> 1000, maxConnect |-> 10,
             maxRead |-> 6, non2xx |-> FALSE]

MCRawOptions ==
  {Defaults, [Defaults EXCEPT !.non2xx = TRUE], [Defaults EXCEPT !.upstream = "u1"],
   [Defaults EXCEPT !.safety = 0, !.minRead = 0, !.minSamples = -1],
   [Defaults EXCEPT !.maxConnect = -3, !.maxRead = 5000, !.quantile = 0],
   [Defaults EXCEPT !.safety = 1000]}

MCLeastInt == -1001

MCDefaultOptions == {Defaults}

=============================================================================
