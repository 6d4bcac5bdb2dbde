--------------------------- MODULE MCKeyProducer ---------------------------
(* Model values for KeyProducer: two DEVELOPMENT environments of one      *)
(* project (their master queues must differ), a deployed one in the same  *)
(* project and one in another org; queue names, concurrency keys and task *)
(* identifiers with and without ':'.  Queue names that contain a "ck"     *)
(* segment are left out: see the :ck: hazard in README section 7.         *)
EXTENDS KeyProducer

MCEnvs ==
    { [id |-> "e1", org |-> "o1", proj |-> "p1", type |-> "DEVELOPMENT"],
      [id |-> "e2", org |-> "o1", proj |-> "p1", type |-> "DEVELOPMENT"],
      [id |-> "e3", org |-> "o1", proj |-> "p1", type |-> "PRODUCTION"],
      [id |-> "e4", org |-> "o2", proj |-> "p2", type |-> "STAGING"] }

MCQueueNames == { <<"task/a">>, <<"q-1">>, <<"my", "queue">>, <<"env", "x", "queue">> }

MCConcurrencyKeys == { NoKey, <<"k1">>, <<"user", "42">>, <<"a", "ck", "b">> }

MCTaskIds == { <<"task/a">>, <<"queue", "q">>, <<"envType", "x", "queue", "q">> }

MCPrefix == <<"rq">>
=============================================================================
