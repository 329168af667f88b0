SPECIFICATION FairSpec
CONSTANTS
  asset = asset
  ticket = ticket
  agent = agent
  admin = admin
  job = job
  Assets = {asset}
  Tickets = {ticket}
  f1 = f1
  f2 = f2
  Files = {f1, f2}
  Agents = {agent}
  Admins = {agent}
  Jobs = {job}
  MaxFaults = 1
  None = None
PROPERTY PurgeTakesBlobs
