----------------------------- MODULE Deployment -----------------------------
(* What the system works on: campaigns and their tasks, the contacts' time  *)
(* zones, and the calls a provider may accept. Every component extends it.  *)
EXTENDS Integers, FiniteSets

CONSTANTS
    Campaigns,          \* rows of campaigns
    Tasks,              \* rows of call_tasks, one per contact
    CampaignOf,         \* call_tasks.campaign_id
    MaxConcurrency,     \* campaigns.max_concurrency (schemas.py: gt=0)
    Zones,              \* time zones of the contacts
    ZoneOf,             \* contacts.timezone of a task's contact
    Calls,              \* calls the provider may accept (bounds the run)
    NoTask,             \* no task
    NoCall              \* no call: provider_call_id IS NULL

ASSUME DeploymentAssumption ==
    /\ IsFiniteSet(Tasks)
    /\ CampaignOf \in [Tasks -> Campaigns]
    /\ MaxConcurrency \in [Campaigns -> Nat \ {0}]
    /\ ZoneOf \in [Tasks -> Zones]
    /\ NoTask \notin Tasks
    /\ NoCall \notin Calls
=============================================================================
