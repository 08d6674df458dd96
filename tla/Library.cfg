SPECIFICATION LibrarySpec

CONSTANT Millis = 2
CONSTANT Seconds = 3
CONSTANT Minutes = 2
CONSTANT Hours = 2
CONSTANT Days = 3
CONSTANT Months = 2
CONSTANT Years = 2
CONSTANT YearBias = 1
CONSTANT Nanos = 6

CONSTANT Header = 4
CONSTANT Cap = 16
CONSTANT Page = 8
CONSTANT Align = 4
CONSTANT Tags = {"html", "div"}
CONSTANT MaxAttrs = 1
CONSTANT Lines <- MCLines
CONSTANT Eols <- MCEols
CONSTANT Fields <- MCFields
CONSTANT About <- MCAbout
CONSTANT Resets = 1
CONSTANT Options <- MCOptions
CONSTANT Program <- MCProgram
CONSTANT Argument <- MCArgument
CONSTANT MaxArgs = 4
CONSTANT Given <- MCGiven
CONSTANT Ports <- MCPorts
CONSTANT Width = 1000
CONSTANT Characters <- MCCharacters
CONSTANT MaxPath = 7
CONSTANT MaxRounds = 2

INVARIANTS
  PageIsWhole
  RequestIsWhole
  OptionsReported
  UrlTakenApart
  PathFixed
  RoundTrip
  Ordered

CHECK_DEADLOCK FALSE
