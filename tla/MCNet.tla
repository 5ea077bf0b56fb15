-------------------------------- MODULE MCNet --------------------------------
EXTENDS NetService

MCRxSlots == <<2, 3>>

TwoEvents == [genet |-> 2, virtio |-> 2]
ThreeEvents == [genet |-> 3, virtio |-> 3]
==============================================================================
