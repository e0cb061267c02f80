\* The update dialog of a template or a rule opens on the default form.
CONSTANTS
  None = None
  Texts = {"t1", "t2"}
  MaxInputs = 3
  MaxErrors = 0
SPECIFICATION Spec
INVARIANT DialogShowsItem
CHECK_DEADLOCK FALSE
