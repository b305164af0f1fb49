------------------------------ MODULE MCUsbIo ------------------------------
(***************************************************************************)
(* Instances of UsbIo for TLC.                                             *)
(***************************************************************************)
EXTENDS UsbIo

\* A transmit pipe on both kinds of kernel, a receive pipe on one that does
\* not run a work item twice at once.
AllSetups == {<<"tx", TRUE>>, <<"tx", FALSE>>, <<"rx", FALSE>>}
=============================================================================
