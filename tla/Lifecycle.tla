----------------------------- MODULE Lifecycle -----------------------------
(* The LifecycleGuard every engine embeds (transcode/internal/             *)
(* lifecycle_guard.rs): one phase, and for each entry point of the engine  *)
(* the failure it reports in a phase and the phase it moves to.            *)
(* OnResetStart and OnFinishStart are committed before user code runs, so  *)
(* an error or an unwinding panic in between leaves the guard Poisoned.    *)

Phases == {"Uninitialized", "Fresh", "Streaming", "Finished", "Poisoned"}

\* The phases in which codec and hooks may be called for stream data.
Active == {"Fresh", "Streaming"}

LifecycleFailures == {"TranscodeBeforeReset", "TranscodeAfterFinish",
                      "FinishBeforeReset", "FinishAfterFinish",
                      "LifecyclePoisoned"}

NewGuard == "Uninitialized"

\* Mutant: a reset that trusts the calls still to come.
OnResetStartLate == "Fresh"

OnResetStart == "Poisoned"

OnResetSuccess == "Fresh"

\* The failure on_transcode returns in phase p, "none" when it accepts.
OnTranscodeFailure(p) ==
    CASE p = "Uninitialized" -> "TranscodeBeforeReset"
      [] p = "Finished"      -> "TranscodeAfterFinish"
      [] p = "Poisoned"      -> "LifecyclePoisoned"
      [] OTHER               -> "none"

\* The phase on_transcode leaves behind.
OnTranscode(p) == IF p = "Fresh" THEN "Streaming" ELSE p

\* The failure on_finish_attempt returns in phase p; it never moves the phase.
OnFinishFailure(p) ==
    CASE p = "Uninitialized" -> "FinishBeforeReset"
      [] p = "Finished"      -> "FinishAfterFinish"
      [] p = "Poisoned"      -> "LifecyclePoisoned"
      [] OTHER               -> "none"

\* Mutant: a finish that poisons only once it has succeeded.
OnFinishStartLate == "Streaming"

OnFinishStart == "Poisoned"

OnFinishSuccess == "Finished"

=============================================================================
