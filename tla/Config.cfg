CONSTANTS
  Unset = Unset
  Raw = Raw
  color = color
  switch = switch
  title = title
  red = red
  no = no
  plain = plain
  cited = cited
  Key <- MCKey
  PluginKey = {color}
  KeyOrder <- MCKeyOrder
  Value <- MCValue
  Default <- MCDefault
  Valid <- MCValid
  Quoted = {cited}
  Edited <- MCEdited
  Buffer = 5
  AliasOrder <- MCAliasOrder
  Expansion <- MCExpansion
  EditedAliases <- MCEditedAliases
  AliasBuffer = 13
  MaxAliases = 20
  Beside <- MCBeside
  Alphabet <- MCAlphabet
  MaxChars = 4
  MaxLong = 700
  MaxInt32 = 70
SPECIFICATION SpecBoth
INVARIANTS
  TypeOK
  FileHoldsSettings
  EffectFollowsSettings
  SettingsReadBack
PROPERTIES
  StartRestores
  AliasesKept
  ReadEnds
