SPECIFICATION Spec
CONSTANTS
  l1 = l1
  l2 = l2
  l3 = l3
  l4 = l4
  r1 = r1
  i1 = i1
  i2 = i2
  i4 = i4
  net = net
  users = users
  opers = opers
  None = None
  LocalClient <- MCLocal
  RemoteClient <- MCRemote
  Ip <- MCIp
  IpOf <- MCIpOf
  Prefix = {net}
  PrefixOf <- MCPrefixOf
  Exempt = {l3}
  Class = {users, opers}
  AllowClass = users
  OperClass = opers
  MaxClients <- MCMaxClients
  MaxPerIp = 1
  GlobalMaxPerIp = 2
  UnknownLimit = 2
  Env = {"retry", "rehash"}
INVARIANTS
  SomeCountHolds
