SPECIFICATION FairSpec
CONSTANTS
  Options = {default}
  DefaultOptions = default
  NoEngine = NoEngine
  Apps = {app}
  t1 = t1
  Threads = {t1, t2}
  AppOf <- MCAppOf
  Hosts = {h1, h2}
  NoThread = NoThread
  NoHost = NoHost
  Requests <- MCStartStop
  Patient = {t1}
  MaxTrouble = 1
INVARIANT LostHasCause
PROPERTIES ImplementsService CallReturns
CHECK_DEADLOCK FALSE
