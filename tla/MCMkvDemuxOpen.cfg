CONSTANTS
  v = v
  a = a
  NoTrack = NoTrack
  VideoTracks = {v}
  TrackOrder <- MCTrackOrder
  File <- MCFile
  NsPerTick = 10
  RingCap = 3
  CacheCap = 2
  Rooms = {1, 4}
  Targets = {0, 3}
  JunkTimes = {0}
  MaxSeeks = 2
  Profiles <- OpenerProfiles
SPECIFICATION Spec
CHECK_DEADLOCK FALSE
PROPERTY ResetReachesDemuxer
