\* Families of texts, plans and definitions over small tables.
CONSTANTS
  Alphabet <- MCAlphabet
  Letters <- MCLetters
  Lower <- MCLower
  Databases <- MCDatabases
  Requests <- MCRequests
SPECIFICATION Spec
INVARIANT LexesLongest
INVARIANT ParsesBack
INVARIANT WhereIsSound
INVARIANT SelectMeansQuery
 
PROPERTY PassesKeepMeaning
