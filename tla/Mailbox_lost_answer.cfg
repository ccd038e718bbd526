SPECIFICATION FairSpec
CONSTANTS
  m1 = m1
  m2 = m2
  k1 = k1
  d1 = d1
  d2 = d2
  p1 = p1
  p2 = p2
  p3 = p3
  Msg = {m1}
  Task = {k1}
  TaskOf <- MCTaskOf
  Ts <- MCTs
  Device = {d1, d2}
  Poller = {p1, p2}
  DeviceOf <- MCDeviceOf
  MaxFaults = 1
  None = None
PROPERTIES EachDeviceGetsACopy
