SPECIFICATION Spec
CONSTANT Calls <- MCCalls
INVARIANTS LabelsMeanWhatIsWritten PlansAgree FinalizeReadsWhatWasBound
CHECK_DEADLOCK FALSE
