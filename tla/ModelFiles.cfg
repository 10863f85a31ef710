SPECIFICATION FilesSpec
CONSTANTS
  sky = sky
  sky0 = sky0
  sky1 = sky1
  Names <- MCNames
  Plain <- MCPlain
  Channel <- MCChannel
  NoName = none
  MaxStreams = 5
  MaxAgain = 0
  MaxChannels = 2
CHECK_DEADLOCK FALSE
INVARIANTS
  
  
  ChannelsSaved
  LoadedTogether
