---------------------------- MODULE AdErrorCodes ----------------------------
(***************************************************************************)
(* The result codes of the ad framework and how the client library turns   *)
(* the codes of the ad provider ("the kit") into those an application sees.*)
(***************************************************************************)
EXTENDS Integers

ERR_SEND_OK  == 0
PARAM_ERR    == 401
DEVICE_ERR   == 801
INNER_ERR    == 21800001
REQUEST_FAIL == 21800003

(* The error code an application receives when a JavaScript error without  *)
(* a code is forwarded to its failure handler: not a number.               *)
Undefined == -1

(* PARAM_ERROR_CODE as napi_throw_error reports it: a code that is text.   *)
PARAM_ERROR_TEXT == -2

LOAD_AD_SUCCESS == 200

AD_LOAD_PARAMS_ERROR     == 401
DEVICE_NOT_SUPPORT_ERROR == 801
AD_LOAD_INNER_ERROR      == 100001
AD_LOAD_FAIL             == 100003

(* Codes of AdLoadService::LoadAd, reported through the failure callback   *)
(* or returned to the worker that runs the request.                        *)
ERR_AD_COMMON_AD_CONNECT_KIT_ERROR      == 12
ERR_AD_COMMON_AD_SA_REMOTE_OBJECT_ERROR == 14

(* Every failure of a load request passes through this table.              *)
ErrCodeConvert(kitErrCode) ==
  IF kitErrCode = AD_LOAD_PARAMS_ERROR THEN PARAM_ERR
  ELSE IF kitErrCode = AD_LOAD_FAIL THEN REQUEST_FAIL
  ELSE IF kitErrCode = DEVICE_NOT_SUPPORT_ERROR THEN DEVICE_ERR
  ELSE INNER_ERR
=============================================================================
