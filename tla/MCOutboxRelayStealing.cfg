CONSTANTS
  relay = relay
  digest = digest
  report = report
  other = other
  NoName = NoName
  NoEvent = NoEvent
  Events = {1, 2}
  Types = {report, other}
  Workers = {relay, digest}
  Names = {relay, digest}
  TypeOf <- OneReport
  NameOf <- OwnName
  Subscription <- ComposeSubscription
  BatchSize = 2
  LeaseTicks = 1
  PublishTicks = 1
  BaseRetry = 1
  MaxRetry = 3
  AttemptCap = 3
SPECIFICATION Spec
INVARIANT ConsumerReached
