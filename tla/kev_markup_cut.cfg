SPECIFICATION KevSpec
CONSTANTS
  Piece <- MCPiece
  Descriptions <- MCDescriptions
  Ransomware = "R"
  Dues = {"D1", "D2"}
  SentenceWidth = 3
  MaxSummary = 14
  MaxDescription = 5
  NoDue = NoDue
INVARIANT
  FactsReachTheReader
