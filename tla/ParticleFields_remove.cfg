SPECIFICATION FieldsSpec
CONSTANTS
  Ranks = {0, 1}
  Root = 0
  Nobody = Nobody
  MaxTags = 2
PROPERTY
  SurvivorsKeepFields
