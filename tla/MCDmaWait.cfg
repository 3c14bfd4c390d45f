SPECIFICATION Spec
INVARIANT SleepsWithWakeAhead
PROPERTY SamplingCompletes
