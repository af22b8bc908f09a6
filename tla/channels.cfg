SPECIFICATION FairSpec
CONSTANTS
  Pre = 4
  Post = 8
  Blocks <- ThreeSites
  Mask = {1, 2, 4, 5}
  Commands <- UploadCommands
  MaxLines = 2
  MaxSignals = 2
INVARIANTS TypeOK ChannelsInOrder OkMeansUploaded FilesAreChannels LabelsTrue BufferHolds TurnsBounded
PROPERTIES UploadEnds
