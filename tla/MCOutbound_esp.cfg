SPECIFICATION Spec
CONSTANTS
  im = im
  voice = voice
  ghost = ghost
  NoMsg = NoMsg
  NoReply = NoReply
  NoChannel = NoChannel
  Channels = {im, ghost, voice}
  TrackedChannels = {im}
  QueueChannels = {}
  RecordingChannels = {}
  DirectChannels = {voice}
  VoiceChannels = {voice}
  ActiveChannel = im
  ReliableChannels = {}
  Msgs <- EspMsgs
  BufferMax = 2
  FailThreshold = 2
  CooldownSecs = 1
  SenderQueueMax = 1
  OutboundMax = 2
  SendTries = 2
  SenderTries = 2
  MaxModeChanges = 1
INVARIANTS TypeOK DeferredWithinLimit NoAttemptInCooldown
PROPERTIES DeferredOrderKept PrimaryLossExplained
