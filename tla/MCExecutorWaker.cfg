SPECIFICATION Spec
CONSTANT MaxTasks = 2
INVARIANT WakeMarksTheSlot
