----------------------------- MODULE ExitStatus -----------------------------
(***************************************************************************)
(* backend/scm/exit_status.rs: what goetia-shim tells the Service Control  *)
(* Manager (SCM) when its daemon ends, and how the manager reads that      *)
(* record back.  Pure operators; Shim composes them with the run.          *)
(*                                                                         *)
(* A daemon's exit code travels as a service-specific code, the shim's own *)
(* failures as Win32 codes, and a stop that could not be completed as a    *)
(* Win32 code 0 with a service-specific code beside it, because SCM        *)
(* restarts after every STOPPED whose Win32 code is not 0.                 *)
(***************************************************************************)
EXTENDS Integers

CONSTANTS
    Half,       \* 2^31: daemon codes are i32 in, u32 out (smaller for TLC)
    NoCode      \* Option::None where an OS error code may be

ERROR_INVALID_DATA == 13
ERROR_GEN_FAILURE == 31
ERROR_CAN_NOT_COMPLETE == 1003
ERROR_SERVICE_SPECIFIC_ERROR == 1066
ERROR_PROCESS_ABORTED == 1067

ASSUME ExitStatusAssumption ==
    /\ Half \in Nat
    /\ Half > ERROR_PROCESS_ABORTED
    /\ NoCode \notin Int

I32 == (-Half)..(Half - 1)
U32 == 0..(2 * Half - 1)

\* Slip: the code keeps its sign.
AsU32_Signed(code) == code

\* `code as u32`: the same bits, read unsigned.
AsU32(code) == IF code < 0 THEN code + 2 * Half ELSE code

Kinds == {"Clean", "DaemonExit", "ShimFailure", "IncompleteStop"}
Reported == [kind : Kinds, code : U32]

Clean == [kind |-> "Clean", code |-> 0]
IncompleteStop == [kind |-> "IncompleteStop", code |-> 0]

from_daemon_code(code) ==
    IF code = 0 THEN Clean
                ELSE [kind |-> "DaemonExit", code |-> AsU32(code)]

\* Slip: the OS error is taken as it is.
shim_failure_Raw(os_error) ==
    [kind |-> "ShimFailure",
     code |-> IF os_error = NoCode THEN ERROR_GEN_FAILURE ELSE AsU32(os_error)]

\* None, 0 and 1066 become ERROR_GEN_FAILURE: 0 would read as a clean exit
\* and 1066 as a daemon's code.
shim_failure(os_error) ==
    [kind |-> "ShimFailure",
     code |-> IF os_error = NoCode THEN ERROR_GEN_FAILURE
              ELSE IF AsU32(os_error) \in {0, ERROR_SERVICE_SPECIFIC_ERROR}
                   THEN ERROR_GEN_FAILURE
                   ELSE AsU32(os_error)]

\* The (win32, service_specific) pair of the STOPPED report.
scm_codes(r) ==
    <<IF r.kind = "DaemonExit" THEN ERROR_SERVICE_SPECIFIC_ERROR
      ELSE IF r.kind = "ShimFailure" THEN r.code ELSE 0,
      IF r.kind = "DaemonExit" THEN r.code
      ELSE IF r.kind = "IncompleteStop" THEN ERROR_CAN_NOT_COMPLETE ELSE 0>>

\* RecordedExit: how the manager reads the pair SCM holds.
daemon_ran(codes) == codes[1] \in {0, ERROR_SERVICE_SPECIFIC_ERROR}
is_incomplete_stop(codes) == codes = scm_codes(IncompleteStop)

\* SCM's own rule under the failure-actions flag: it restarts after any
\* STOPPED whose Win32 code is not 0, a commanded one included.
ScmRestarts(codes) == codes[1] # 0
=============================================================================
