CONSTANTS
  eth = eth
  wlan = wlan
  tailscale = tailscale
  zt = zt
  docker = docker
  Iface = {eth, wlan, tailscale, zt}
  Excluded = {docker}
  Forced = {tailscale, zt}
  NftSees = {eth, wlan, zt, docker}
  MaxFlow = 5
SPECIFICATION Spec
INVARIANTS
  WanNeverLow
  LanKept
