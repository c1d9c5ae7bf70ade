------------------------- MODULE MCStartupConfiguration -------------------------
(* A small instance of StartupConfiguration for TLC: one domain is local by    *)
(* its factory, one by the local-domains setting too, one by neither.          *)
EXTENDS StartupConfiguration

CONSTANTS dom1, dom2

MCFactoryDomains == <<dom1, dom2>>

=============================================================================
