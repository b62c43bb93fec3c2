SPECIFICATION ArchiveSpec
INVARIANTS
  ExportReadsBack
  DocumentReadsBack
  AttachedKeepInstants
  RereadAnswersAlike
  NearestWins
  ConversionKeepsNames
  LinksAgree
CHECK_DEADLOCK FALSE
