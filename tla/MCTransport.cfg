SPECIFICATION Spec
CONSTANTS
  qq = qq
  feishu = feishu
  voice = voice
  save = save
  scan = scan
  call = call
  Nobody = Nobody
  Gateways = {qq, feishu}
  Voice = voice
  Configs = {save, scan}
  Writers = {save}
  Callers = {call}
  MaxSessions = 2
INVARIANTS TypeOK NoSessionBesideSuspender AtMostTwoSessions
PROPERTIES SuspensionTakesHold GatewaysComeBack
