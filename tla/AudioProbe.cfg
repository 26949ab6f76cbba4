\* Up to three devices that come and go at any moment.
CONSTANT MaxDevices = 3
SPECIFICATION Spec
INVARIANTS ChoosesFirstLoopback RefusedOnlyIfChanged
CHECK_DEADLOCK FALSE
