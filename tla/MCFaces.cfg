\* Three internal packets: enough for one in flight at each of close and
\* destruction.  Two getFd calls: a second descriptor outlives a close.
\* pcap_set_immediate_mode is taken to succeed (see README, Not modelled).
CONSTANTS
  MaxSends = 3
  MaxDups = 2
SPECIFICATION FacesSpec
INVARIANT FacesTypeOK PeersAgree ReleasedOnce DestroyReleases
PROPERTY ClientLinkIsFifo
\* with every packet sent, the forwarder closed, the client gone, the
\* helper destroyed and the input thread stopped, there is nothing left to do
CHECK_DEADLOCK FALSE
