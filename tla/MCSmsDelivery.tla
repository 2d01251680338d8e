-------------------------------- MODULE MCSmsDelivery --------------------------------
(* SmsDelivery with few messages, prefixes, crashes and failures.               *)
EXTENDS SmsDelivery
=============================================================================
