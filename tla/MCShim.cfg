\* Every function of the crate that Shim models, with every way a call can fail.
SPECIFICATION Spec
CONSTANT Functions_ = {"open_custom", "info", "edit", "verify", "open_with_diff", "reopen_diff", "create", "create_from_cue", "cooked_reader"}
INVARIANT NoUseAfterFree
INVARIANT NothingLeaks
INVARIANT FailuresReported
CHECK_DEADLOCK FALSE
