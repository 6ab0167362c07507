----------------------------- MODULE CgoHandles -----------------------------
(***************************************************************************)
(* What all parts of golang/ffi.go that keep state for Python share: the   *)
(* numbers of runtime/cgo handles, and the end of the process, Python and  *)
(* all, when Go panics.                                                    *)
(***************************************************************************)
EXTENDS Naturals, Sequences, FiniteSets

CONSTANT None

VARIABLES issued,    \* the last handle that cgo.NewHandle gave out
          valid,     \* the handles that were not deleted yet
          panicked

cgoVars == <<issued, valid, panicked>>

CgoInit == issued = 0 /\ valid = {} /\ panicked = FALSE

(* cgo.NewHandle: the new handle is issued'; 0 is never one.               *)
NewHandle == /\ issued' = issued + 1
             /\ valid' = valid \cup {issued + 1}
             /\ UNCHANGED panicked

(* handle.Delete() of a handle that is not valid panics.                   *)
DeleteHandle(h) == /\ valid' = valid \ {h}
                   /\ panicked' = (panicked \/ h \notin valid)
                   /\ UNCHANGED issued
=============================================================================
