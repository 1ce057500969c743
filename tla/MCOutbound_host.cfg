SPECIFICATION FairSpec
CONSTANTS
  im = im
  voice = voice
  ghost = ghost
  NoMsg = NoMsg
  NoReply = NoReply
  NoChannel = NoChannel
  Channels = {im, ghost}
  TrackedChannels = {im}
  QueueChannels = {im}
  RecordingChannels = {im}
  DirectChannels = {}
  VoiceChannels = {}
  ActiveChannel = NoChannel
  ReliableChannels = {im}
  Msgs <- HostMsgs
  BufferMax = 2
  FailThreshold = 2
  CooldownSecs = 1
  SenderQueueMax = 1
  OutboundMax = 1
  SendTries = 2
  SenderTries = 2
  MaxModeChanges = 2
INVARIANT MessageInOnePlace
PROPERTIES SenderOrderKept DeferredLeaves
