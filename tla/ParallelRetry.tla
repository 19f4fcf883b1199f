---------------------------- MODULE ParallelRetry ----------------------------
(***************************************************************************)
(* create_dumpfile() around ParallelDump: when a write fails for lack of   *)
(* space and --dump-level names another level, the file is deleted and the *)
(* pages are written again.  initial_for_parallel() is not called again:   *)
(* the page_flag lists and the consumer's place in them stay as the failed *)
(* attempt left them.                                                      *)
(***************************************************************************)
EXTENDS ParallelDump

CONSTANT MaxDumpLevel   \* info->max_dump_level, the levels given

VARIABLES
    num_retry,      \* num_retry of create_dumpfile()
    flag_nospace    \* info->flag_nospace, set by a write that got ENOSPC

retryVars == <<vars, num_retry, flag_nospace>>

RetryInit == Init /\ num_retry = 0 /\ flag_nospace = FALSE

\* A step of the writer.  Its failed writes fail for lack of space.
Attempt ==
    /\ ~ Finished
    /\ Next
    /\ flag_nospace' = (flag_nospace \/ WriteFails)
    /\ UNCHANGED num_retry

\* "goto retry": the next level may dump the same pages.
Retry ==
    /\ cpc = "incomplete"
    /\ flag_nospace
    /\ num_retry + 1 < MaxDumpLevel
    /\ num_retry' = num_retry + 1
    /\ flag_nospace' = FALSE
    /\ cpc' = "prepare"
    /\ ret' = FALSE
    /\ start_pfn' = 0
    /\ end_pfn' = CycleEnd(0)
    /\ written' = << >>
    /\ UNCHANGED <<i, consuming, smallest, end_count, pfnVars, bufferVars,
                   flagVars, localVars, sem, head, pc, cancel>>

\* The dump is complete, or no level is left.
Ends ==
    /\ Finished
    /\ ~ (cpc = "incomplete" /\ flag_nospace /\ num_retry + 1 < MaxDumpLevel)
    /\ UNCHANGED retryVars

RetryNext == Attempt \/ Retry \/ Ends

RetrySpec == RetryInit /\ [][RetryNext]_retryVars
=============================================================================
