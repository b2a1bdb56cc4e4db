------------------------------ MODULE MCTablets ------------------------------
\* On Linux one tool, an eraser; on Windows two pens; on the web and Android a pen and a finger, on iOS two touches of the pencil.
EXTENDS Tablets

MCMaxEvents ==
    [wayland |-> 5, x11 |-> 3, windows |-> 3, web |-> 5, ios |-> 4, android |-> 5]
=============================================================================
