------------------------- MODULE MCServiceStartup --------------------------
EXTENDS ServiceStartup

\* The three sections of service.h 114-124, each added to the desktop and
\* the phone menu in that order.
MCSectionOrder == <<"quickaccess", "wifi", "wwan">>
MCMenuOrder == <<"desktop", "phone">>
MCItems == {"a", "b"}
=============================================================================
