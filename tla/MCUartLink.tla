----------------------------- MODULE MCUartLink -----------------------------
(* Values for the constants of UartLink: the PWM values of a pivot and of  *)
(* a curve, and noise that looks like the beginning of a frame.            *)
EXTENDS UartLink

MCSpeeds == {<<22, -22>>, <<24, 25>>}
MCNoise  == {FRAME_SOF0, FRAME_SOF1}
=============================================================================
