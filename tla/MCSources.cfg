SPECIFICATION SourcesSpec
CHECK_DEADLOCK FALSE
CONSTANTS
  Content <- MCContent
  Dirs <- MCDirs
  Root = "root"
  Piped = {"long", "two", "zip"}
  SkippedPaths <- MCSkippedPaths
  SkippedStreams <- MCSkippedStreams
  StdinPath <- MCStdinPath
  BufferSize = 4
  PeekSize = 4
  HeadSize = 3
  MaxFileSize = 0
  MaxArchiveDepth = 2
  FollowSymlinks = TRUE
  MaxVanished = 1
  LogOpts = ""
  Listed <- MCListed
  Shown <- MCShown
  Spaced = {"x b/y"}
  SkippedFiles <- MCSkippedFiles
  Workers = 2
  PipeSize = 1
  MaxFailures = 1
INVARIANTS NothingIsMissed ChunksAreTrue
PROPERTIES ScansEnd
