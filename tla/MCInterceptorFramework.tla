----------------------- MODULE MCInterceptorFramework -----------------------
(* Two interceptors that meet in one chain with different priorities: one  *)
(* like aggregation with a filter in two chains, one whose filters go      *)
(* before it.                                                              *)
EXTENDS InterceptorFramework
CONSTANTS aggregate, sync, out, post
TwoInterceptors == {aggregate, sync}
TwoChains == {out, post}
TheFilters == [i \in TwoInterceptors |->
                 IF i = aggregate THEN << [at |-> post, priority |-> 127],
                                          [at |-> out, priority |-> 127] >>
                 ELSE << [at |-> post, priority |-> 255],
                         [at |-> post, priority |-> 255],
                         [at |-> out, priority |-> 64] >>]
OnlyAggregate == {aggregate}
=============================================================================
