--------------------------- MODULE MCEventStream ---------------------------
(* EventStream on a small instance: one-byte payloads and a ring of one    *)
(* byte, so that every output event after the first evicts one.            *)
EXTENDS EventStream

MCPayloads == {<<1>>}

(* The exit reaches every responsive client that was subscribed when it    *)
(* was published, unless its connection drops or it is detached as slow.   *)
ExitReachesClient ==
  \A c \in Responsive : \A s \in Streams :
    (exited /\ pub = "appended" /\ attached[c] = s /\ s \in subs)
      ~> (cstate[c] = "ended" \/ attached[c] # s
           \/ (s \notin subs /\ hpc[s] # "done"))

(* session.go on Unsubscribe: "A detached (slow) subscriber's handler      *)
(* exits via its request context instead."  Here the client reads on and   *)
(* keeps its connection.                                                   *)
DetachedStreamEnds ==
  \A c \in Responsive : \A s \in Streams :
    (attached[c] = s /\ hpc[s] \in {"replay", "live"} /\ s \notin subs)
      ~> (attached[c] # s \/ hpc[s] = "done")
=============================================================================
