--------------------------- MODULE MCUdpAssociate ---------------------------
(* UdpAssociate on a small instance: four addresses, two replies.           *)
EXTENDS UdpAssociate
===========================================================================
