---------------------------- MODULE MCUdpClient ----------------------------
EXTENDS UdpClient
=============================================================================
