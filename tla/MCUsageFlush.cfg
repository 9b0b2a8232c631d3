\* Two jobs, three invocations: one written, one kept and one stamped meanwhile.
CONSTANTS
    Jobs = {1, 2}
    Last = 3
SPECIFICATION LiveSpec
INVARIANTS NoInvocationLost RecordedJobsSettled
PROPERTIES ChooseOnce EventuallyRecorded
CHECK_DEADLOCK FALSE
