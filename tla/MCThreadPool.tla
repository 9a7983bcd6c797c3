---------------------------- MODULE MCThreadPool ----------------------------
EXTENDS ThreadPool

(***************************************************************************)
(* Three jobs are followed for one mix of kinds, where every thread was    *)
(* created, nobody destroys the pool and a job was cancelled: enough for a *)
(* slot whose bit a cancel has set to be grabbed again.  Two jobs are      *)
(* followed for all.                                                       *)
(***************************************************************************)
ThirdJob ==
    Len(accepted) = 3 \/ (Len(accepted) = 2 /\ main.pc \in {"scan", "launch", "grab", "fill"}) =>
        /\ <<accepted[1], accepted[2], main.kind>> = <<"none", "reply", "none">>
        /\ cancelled # {}
        /\ \A w \in Workers : wrk[w].state # "FAILED" /\ ~ wrk[w].do_shutdown

(***************************************************************************)
(* A pool is destroyed or a job of it is cancelled, not both: a worker     *)
(* that shuts down drops the job it has taken, cancelled or not.           *)
(***************************************************************************)
EitherOr ==
    cancelled # {} \/ main.ticket # 0 => \A w \in Workers : ~ wrk[w].do_shutdown
=============================================================================
