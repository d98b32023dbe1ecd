\* Four generations: one question each answered, cancelled, replaced and open.
SPECIFICATION Spec
CONSTANT
  MaxGeneration = 4
\* A stopped corrector whose generations are used up has nothing left to do.
CHECK_DEADLOCK FALSE
INVARIANTS
  NoLostInterrupt
  InterruptOnlyInConvert
  NoLostWakeup
PROPERTIES
  StopTerminates
  QuestionIsAnswered
  ImplementsMailbox
