\* state.toml: the node's main thread and its heartbeat thread both write it.
CONSTANTS
  Writers = {main, heartbeat}
  Readers = {r1}
  Inodes = {i1, i2, i3, i4}
  NoInode = NoInode
  MaxVersion = 3
SPECIFICATION FileSpec
INVARIANT NeverTorn
CHECK_DEADLOCK FALSE
