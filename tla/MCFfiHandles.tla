---------------------------- MODULE MCFfiHandles ----------------------------
(* A synchronous and a batch call, and two polled ones that are gathered;  *)
(* a WebSocket and an event stream, used by two threads.                   *)
EXTENDS FfiHandles

MCRequests == {"get", "many", "bad", "a"}
MCKindOf == [r \in MCRequests |->
  CASE r = "get" -> "sync" [] r = "many" -> "batch" [] OTHER -> "polled"]
(* The paths: $CYCLETLS_LIB_PATH, the name of the platform, the old name.  *)
MCInstalls ==
  LET old == {"getRequest", "submitRequestAsync", "checkRequestAsync"}
      new == old \cup {"getRequestZeroCopy", "submitRequestAsyncZeroCopy",
                       "getAsyncResultZeroCopy"}
  IN  {<<None, new, old>>, <<None, None, old>>, <<None, None, None>>}
MCIsSSE == [o \in {"ws", "sse"} |-> o = "sse"]
MCStreams == {<<"x">>, <<"x", "y", "end">>}
=============================================================================
