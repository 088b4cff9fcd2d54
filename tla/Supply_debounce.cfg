SPECIFICATION Spec
PROPERTY SwitchedAfterDebounce
