------------------------------ MODULE Libcxlmi ------------------------------
(* The generic commands of libcxlmi that cxl/src/cxl_cmd.c uses, and the      *)
(* image information that vendor_commands.c borrows from it: the fields that  *)
(* cxl_cmd.c assigns and displays, with the widths it assigns them in.  The   *)
(* library is no part of the repository; it is taken to copy every field of a *)
(* request and of an answer, as the wrappers of vendor_commands.c do.         *)
EXTENDS TLC

Query(answer) == [request |-> <<>>, answer |-> answer]
Order(request) == [request |-> request, answer |-> {}]

FwInfo == {"slots_supported", "slot_info", "caps", "fw_rev1", "fw_rev2", "fw_rev3", "fw_rev4"}
Thresholds == {"over_temperature", "under_temperature",
               "corrected_volatile", "corrected_persistent"}
Policy == {"informational_settings", "warning_settings", "failure_settings", "fatal_settings"}

\* By the command, which stands for its opcode.
GenericLayouts ==
  [memdev_identify    |-> Query({"identify"}),
   get_supported_logs |-> Query({"num_supported_log_entries", "entries"}),
   memdev_get_alert_config |->
     Query({"valid_alerts", "programmable_alerts", "life_used_critical", "life_used_warning",
            "over_temperature_critical", "under_temperature_critical"} \cup Thresholds),
   memdev_set_alert_config |->
     Order([valid_alert_actions |-> 1, enable_alert_actions |-> 1, life_used_threshold |-> 1]
             @@ [f \in Thresholds |-> 2]),
   memdev_get_health_info |->
     Query({"health_status", "media_status", "additional_status", "life_used",
            "device_temperature", "dirty_shutdown_count", "corrected_volatile_error_count",
            "corrected_persistent_error_count"}),
   get_fw_info   |-> Query(FwInfo),
   get_timestamp |-> Query({"timestamp"}),
   set_timestamp |-> Order([timestamp |-> 8]),
   get_event_records |->
     [request |-> [event_log_type |-> 1],
      answer  |-> {"flags", "overflow_err_count", "first_overflow_timestamp",
                   "last_overflow_timestamp", "record_count", "records"}],
   clear_event_record      |-> Order([event_log_type |-> 1, event_record_handle |-> 2]),
   clear_all_event_records |-> Order([event_log_type |-> 1, clear_event_flags |-> 1]),
   get_event_interrupt_policy |-> Query(Policy),
   set_event_interrupt_policy |-> Order([f \in Policy |-> 1])]

OsInfoLayouts == [GET_OS_INFO |-> Query(FwInfo)]

GenericWrappers ==
  [c \in DOMAIN GenericLayouts |->
     [op |-> c, puts |-> DOMAIN GenericLayouts[c].request,
      takes |-> GenericLayouts[c].answer, limited |-> {}]]
=============================================================================
