CONSTANTS
  Unset = Unset
  Raw = Raw
  color = color
  switch = switch
  title = title
  red = red
  no = no
  plain = plain
  cited = cited
  Key <- MCKey
  PluginKey = {color}
  KeyOrder <- MCKeyOrder
  Value <- MCValue
  Default <- MCDefault
  Valid <- MCValid
  Quoted = {cited}
  Edited <- MCEdited
  Buffer = 5
SPECIFICATION Spec
INVARIANT ReadKeepsFile
